---- MODULE Spec2Model ----
(***************************************************************************)
(* Nicko's Backup Manager (src/src/models.py, src/src/main.py).            *)
(*                                                                         *)
(* Fifteen specifications share the variables below:                       *)
(*   Spec        the list registry (_AllLists) driven through its own API; *)
(*   SpecSave    the same with save() and load() of the pickle snapshot;   *)
(*   SpecPickle  save() and load() of lists that hold resources;           *)
(*   SpecCLI     the registry driven through the "list ..." commands of    *)
(*               the command loop of main.py;                              *)
(*   SpecClone   the commands "list create", "list pop", "list clone";     *)
(*   SpecFS      one resource (BackupFile / BackupDir) and what is at its  *)
(*               origin and its destiny, for are_different;                *)
(*   SpecBackup  one resource backed up and restored;                      *)
(*   SpecBuild   resources built from any path and added to a list;        *)
(*   SpecArray   a ResourcesArray: add, remove, pop, clear, files_only and *)
(*               dirs_only;                                                *)
(*   SpecRun     ResourcesArray.backup / restore consumed step by step;    *)
(*   SpecExport  a ResourcesArray exported to the interchange file and     *)
(*               imported from it;                                         *)
(*   SpecWalk    BackupDir.walk over a tree and over an archive of it;     *)
(*   SpecSize    the size of one resource;                                 *)
(*   SpecRound   a directory backed up, files of it deleted, restored;     *)
(*   SpecMember  a file of a directory whose destiny is an archive.        *)
(***************************************************************************)
EXTENDS Integers, Sequences, FiniteSets, TLC

VARIABLES
    lname,      \* heap of ResourcesArray objects: id -> .name
    ldata,      \* heap of ResourcesArray objects: id -> ._data
    data,       \* _AllLists._data : sequence of object ids
    selected,   \* _AllLists._selected : object id or None
    snapshot,   \* the pickle file PROJECT_DIR/"all_lists", or NoFile;
                \* in SpecExport the interchange file
    call,       \* the last call: operation, argument, outcome
    rsrc,       \* SpecFS: the resource under test
    ofs,        \* what is at the resource's origin path
    dfs,        \* what is at the resource's destiny path
    zfs,        \* what is at destiny/(origin.name + ".zip")
    lists,      \* heap of list objects: reference -> sequence of resources
    array,      \* a ResourcesArray: .name and the reference in ._data
    view,       \* the ResourcesArray files_only / dirs_only returned
    gen         \* the generator pop / backup / restore returned

vars == <<lname, ldata, data, selected, snapshot, call, rsrc, ofs, dfs, zfs,
          lists, array, view, gen>>
regvars == <<lname, ldata, data, selected, snapshot>>
arrvars == <<lists, array, view, gen>>
fsvars == <<rsrc, ofs, dfs, zfs, arrvars>>

----------------------------------------------------------------------------
(* Bounds *)

MaxLists == 3
MaxObjs == 4
MaxContent == 1
MaxCopyDepth == 1
MaxTick == 5
MaxBackups == 2
MaxArr == 3

Ids == 1..MaxObjs
None == 0
Indexes == (0 - (MaxLists + 1))..MaxLists

----------------------------------------------------------------------------
(* Python lists *)

Range(s) == {s[i] : i \in 1..Len(s)}

\* list.__getitem__(index): an index in -len..len-1 is a position, negative
\* indexes counting from the end; anything else raises IndexError.
InRange(s, index) == (0 - Len(s)) <= index /\ index < Len(s)

Pos(s, index) == IF index >= 0 THEN index + 1 ELSE Len(s) + index + 1

\* list.pop(position) / del list[position], 1-based position
RemoveAt(s, p) == [i \in 1..(Len(s) - 1) |-> IF i < p THEN s[i] ELSE s[i + 1]]

\* list.index(value): first position holding value, 0 when there is none
IndexOf(s, v) ==
    IF \E i \in 1..Len(s) : s[i] = v
    THEN CHOOSE i \in 1..Len(s) : s[i] = v /\ \A j \in 1..(i - 1) : s[j] /= v
    ELSE 0

----------------------------------------------------------------------------
(* List names.  A name is the string                                       *)
(*   "Copy pre[1] of Copy pre[2] of ... base"                              *)
(* kept as its base and the sequence of copy numbers in front of it.       *)

Bases == {"A", "B", "C"}
Name(b) == [base |-> b, pre |-> <<>>]
UserNames == {Name(b) : b \in Bases}
\* heap marks: an id no object has taken yet, and an object that is gone
NoName == [base |-> "", pre |-> <<>>]
Dead == [base |-> "", pre |-> <<0>>]

\* f"Copy {n} of {name}"
CopyName(n, nm) == [base |-> nm.base, pre |-> <<n>> \o nm.pre]

\* re.fullmatch(f"Copy \d of {name}", other): one decimal digit
fullmatch_copy(nm, other) ==
    /\ other.base = nm.base
    /\ Len(other.pre) = Len(nm.pre) + 1
    /\ Tail(other.pre) = nm.pre
    /\ Head(other.pre) \in 0..9

----------------------------------------------------------------------------
(* Resources held by a list (BackupMeta and its subclasses)                *)

NoTime == 0 - 1

BackupFile(o, d) ==
    [type |-> "file", origin |-> o, destiny |-> d, last_backup |-> NoTime,
     at |-> "", compress |-> FALSE]

BackupDir(o, d, c) ==
    [type |-> "dir", origin |-> o, destiny |-> d, last_backup |-> NoTime,
     at |-> "", compress |-> c]

ResourcePool ==
    { [BackupFile("o1/a", "d1.zip") EXCEPT !.last_backup = 1, !.at = "a"],
      BackupDir("o2", "d2.zip", TRUE) }

----------------------------------------------------------------------------
(* The file system seen by one resource.  What is at a path is absent, a   *)
(* regular file, a zip archive or a directory; the files below a directory *)
(* and the members of an archive are named by their relative path.         *)
(* st_mtime counts half seconds; an archive member's date_time is in whole *)
(* seconds.                                                                *)

Members == {"a", "b.zip", "c"}
Times == 0..MaxTick
Bytes == {"x", "y"}

NoEntry == [present |-> FALSE, mtime |-> 0, bytes |-> ""]
Entry(t, b) == [present |-> TRUE, mtime |-> t, bytes |-> b]
NoFiles == [m \in Members |-> NoEntry]

\* the directories with files at "a" and "b.zip" taken from E
Holding(E) ==
    {[m \in Members |-> IF m \in {"a", "b.zip"} THEN f[m] ELSE NoEntry] :
        f \in [{"a", "b.zip"} -> E]}

Absent == [kind |-> "absent", mtime |-> 0, bytes |-> "", files |-> NoFiles]
File(t, b) == [kind |-> "file", mtime |-> t, bytes |-> b, files |-> NoFiles]
Zip(t, fs) == [kind |-> "zip", mtime |-> t, bytes |-> "zip", files |-> fs]
Dir(fs) == [kind |-> "dir", mtime |-> 0, bytes |-> "", files |-> fs]

\* Path.exists
exists(node) == node.kind /= "absent"

\* zipfile.is_zipfile
is_zipfile(node) == node.kind = "zip"

\* math.trunc(st_mtime): whole seconds
trunc(t) == t \div 2

\* Path.suffix of the destiny paths used here
suffix(path) ==
    IF path \in {"d1.zip", "d2.zip", "d3.zip", "o2/b.zip", "d2/b.zip"} THEN ".zip"
    ELSE ""

\* BackupDir.walk: the file yielded for the relative path at has the origin
\* origin/at; its destiny is destiny/at, or the destiny of the directory
\* itself when the walked source is an archive or the destiny is named *.zip
member_origin(o, at) ==
    IF o.kind = "dir" /\ o.files[at].present
    THEN File(o.files[at].mtime, o.files[at].bytes) ELSE Absent

member_destiny(r, src, d, at) ==
    IF is_zipfile(src) \/ suffix(r.destiny) = ".zip" THEN d
    ELSE IF d.kind = "dir" /\ d.files[at].present
         THEN File(d.files[at].mtime, d.files[at].bytes) ELSE Absent

Returns(b) == [err |-> "none", ret |-> b]
Raises(e) == [err |-> e, ret |-> FALSE]

\* -1 < (origin_mtime - destiny_mtime).total_seconds() > 1
mtime_differs(origin_mtime, destiny_mtime) ==
    (0 - 1) < origin_mtime - destiny_mtime /\ origin_mtime - destiny_mtime > 1

\* variant: "or" for "and" in the test of the two sides
file_are_different_or(o, d, at, strict) ==
    IF ~(exists(o) \/ exists(d)) THEN Returns(TRUE)
    ELSE IF d.kind = "dir" THEN Raises("OSError")
    ELSE IF is_zipfile(d) /\ at = "" THEN Raises("AttributeError")
    ELSE IF is_zipfile(d) /\ ~d.files[at].present THEN Returns(TRUE)
    ELSE LET destiny_mtime == IF is_zipfile(d) THEN trunc(d.files[at].mtime)
                              ELSE trunc(d.mtime)
             dbytes == IF is_zipfile(d) THEN d.files[at].bytes ELSE d.bytes
         IN  IF mtime_differs(trunc(o.mtime), destiny_mtime) THEN Returns(TRUE)
             ELSE IF strict /\ o.kind = "dir" THEN Raises("OSError")
             ELSE IF strict /\ o.bytes /= dbytes THEN Returns(TRUE)
             ELSE Returns(FALSE)

\* BackupFile.are_different(strict) for a file whose origin is o, whose
\* destiny is d and whose _at is at ("" for None).  open('rb') fails on a
\* directory; a zip file as destiny is searched for the member _at.
file_are_different(o, d, at, strict) ==
    IF ~(exists(o) /\ exists(d)) THEN Returns(TRUE)
    ELSE IF d.kind = "dir" THEN Raises("OSError")
    ELSE IF is_zipfile(d) /\ at = "" THEN Raises("AttributeError")
    ELSE IF is_zipfile(d) /\ ~d.files[at].present THEN Returns(TRUE)
    ELSE LET origin_mtime == trunc(o.mtime)
             destiny_mtime == IF is_zipfile(d) THEN trunc(d.files[at].mtime)
                              ELSE trunc(d.mtime)
             dbytes == IF is_zipfile(d) THEN d.files[at].bytes ELSE d.bytes
         IN  IF mtime_differs(origin_mtime, destiny_mtime) THEN Returns(TRUE)
             ELSE IF strict /\ o.kind = "dir" THEN Raises("OSError")
             ELSE IF strict /\ o.bytes /= dbytes THEN Returns(TRUE)
             ELSE Returns(FALSE)

\* BackupDir._get_source(...): the origin, the destiny when there is none
get_source(o, d) == IF ~exists(o) THEN d ELSE o

\* BackupDir.walk(): the relative paths of the files of the source
walk(src) ==
    IF src.kind \in {"zip", "dir"} THEN {m \in Members : src.files[m].present}
    ELSE {}

\* are_different of the file walk() yields for the relative path at
walked_are_different(r, o, d, at, strict) ==
    file_are_different(member_origin(o, at),
                       member_destiny(r, get_source(o, d), d, at), at, strict)

\* BackupDir.are_different(strict): the first file of the walk that differs
\* or raises decides.  The order of the walk is the order of the directory
\* listing, so each such file may be the first: the set of the outcomes.
dir_are_different(r, o, d, strict) ==
    IF ~(exists(o) /\ exists(d)) THEN {Returns(TRUE)}
    ELSE LET res(m) == walked_are_different(r, o, d, m, strict)
             W == walk(get_source(o, d))
             stops(m) == res(m).err /= "none" \/ res(m).ret
         IN  IF \E m \in W : stops(m)
             THEN {res(m) : m \in {n \in W : stops(n)}}
             ELSE {Returns(FALSE)}

\* are_different of the resource r
are_different(r, o, d, strict) ==
    IF r.type = "file" THEN {file_are_different(o, d, r.at, strict)}
    ELSE dir_are_different(r, o, d, strict)

----------------------------------------------------------------------------
(* pickle *)

\* BackupMeta.__getstate__ / BackupFile.__getstate__ / BackupDir.__getstate__
getstate(r) ==
    IF r.type = "file"
    THEN [for_init |-> [origin_path |-> r.origin, destiny_path |-> r.destiny,
                        compress |-> FALSE],
          type |-> "file", last |-> r.last_backup, at_path |-> r.at]
    ELSE [for_init |-> [origin_path |-> r.origin, destiny_path |-> r.destiny,
                        compress |-> r.compress],
          type |-> "dir", last |-> r.last_backup, at_path |-> ""]

\* variant: the time of the last backup is not restored
setstate_without_last(st) ==
    IF st.type = "file"
    THEN [BackupFile(st.for_init.origin_path, st.for_init.destiny_path)
            EXCEPT !.at = st.at_path]
    ELSE BackupDir(st.for_init.origin_path, st.for_init.destiny_path,
                   st.for_init.compress)

\* BackupMeta.__setstate__ / BackupFile.__setstate__
setstate(st) ==
    IF st.type = "file"
    THEN [BackupFile(st.for_init.origin_path, st.for_init.destiny_path)
            EXCEPT !.last_backup = st.last, !.at = st.at_path]
    ELSE [BackupDir(st.for_init.origin_path, st.for_init.destiny_path,
                    st.for_init.compress)
            EXCEPT !.last_backup = st.last]

\* pickle.dump of one ResourcesArray: its __dict__ (name, _data)
dump_array(id) ==
    [name |-> lname[id],
     content |-> [i \in 1..Len(ldata[id]) |-> getstate(ldata[id][i])]]

NoFile == [present |-> FALSE, arrays |-> <<>>, sel |-> 0, selobj |-> <<>>]

\* pickle.dump(self, fp) of the registry.  The pickler writes every object
\* once; _selected is written as a reference to the array already written
\* for _data when it is one of them, as an object of its own otherwise.
dump(R) ==
    [present |-> TRUE,
     arrays |-> [i \in 1..Len(R.data) |-> dump_array(R.data[i])],
     sel |-> IF R.selected = None THEN 0 ELSE IndexOf(R.data, R.selected),
     selobj |-> IF R.selected /= None /\ IndexOf(R.data, R.selected) = 0
                THEN <<dump_array(R.selected)>> ELSE <<>>]

----------------------------------------------------------------------------
(* _AllLists *)

Reg == [data |-> data, selected |-> selected, lname |-> lname]

Ok(R, ret) == [data |-> R.data, selected |-> R.selected, err |-> "none", ret |-> ret]
Raise(R, e) == [data |-> R.data, selected |-> R.selected, err |-> e, ret |-> None]

\* _AllLists.names
names(R) == [i \in 1..Len(R.data) |-> R.lname[R.data[i]]]

\* variant: the name check never raises
check_repetition_off(R, nm) == FALSE

\* _AllLists.__check_repetition: TRUE when RepetitionError is raised
check_repetition(R, nm) == nm \in Range(names(R))

\* _AllLists.__contains__
contains(R, nm) == nm \in Range(names(R))

\* variant: add selects whatever it appends
add_always_selects(R, value, nm) ==
    IF check_repetition(R, nm)
    THEN Raise(R, "RepetitionError")
    ELSE [data |-> Append(R.data, value), selected |-> value,
          err |-> "none", ret |-> None]

\* _AllLists.add(value), value an object named nm
add(R, value, nm) ==
    IF check_repetition(R, nm)
    THEN Raise(R, "RepetitionError")
    ELSE LET d == Append(R.data, value) IN
         [data |-> d,
          selected |-> IF Len(d) = 1 /\ R.selected = None THEN value ELSE R.selected,
          err |-> "none", ret |-> None]

\* variant: pop forgets the selection
pop_keeps_selected(R, index) ==
    IF ~InRange(R.data, index)
    THEN Raise(R, "IndexError")
    ELSE [data |-> RemoveAt(R.data, Pos(R.data, index)), selected |-> R.selected,
          err |-> "none", ret |-> R.data[Pos(R.data, index)]]

\* _AllLists.pop(index)
pop(R, index) ==
    IF ~InRange(R.data, index)
    THEN Raise(R, "IndexError")
    ELSE [data |-> RemoveAt(R.data, Pos(R.data, index)),
          selected |-> IF R.data[Pos(R.data, index)] = R.selected THEN None ELSE R.selected,
          err |-> "none", ret |-> R.data[Pos(R.data, index)]]

\* variant: remove forgets the selection
remove_keeps_selected(R, value) ==
    IF IndexOf(R.data, value) = 0
    THEN Raise(R, "ValueError")
    ELSE [data |-> RemoveAt(R.data, IndexOf(R.data, value)), selected |-> R.selected,
          err |-> "none", ret |-> None]

\* _AllLists.remove(value): the selection is cleared before list.remove,
\* which raises ValueError when value is not an element
remove(R, value) ==
    LET sel == IF value = R.selected THEN None ELSE R.selected IN
    IF IndexOf(R.data, value) = 0
    THEN [data |-> R.data, selected |-> sel, err |-> "ValueError", ret |-> None]
    ELSE [data |-> RemoveAt(R.data, IndexOf(R.data, value)), selected |-> sel,
          err |-> "none", ret |-> None]

\* variant: a failing select drops the selection
select_clears_on_error(R, index) ==
    IF ~InRange(R.data, index)
    THEN [data |-> R.data, selected |-> None, err |-> "IndexError", ret |-> None]
    ELSE [data |-> R.data, selected |-> R.data[Pos(R.data, index)],
          err |-> "none", ret |-> R.data[Pos(R.data, index)]]

\* _AllLists.select(index)
select(R, index) ==
    IF ~InRange(R.data, index)
    THEN Raise(R, "IndexError")
    ELSE [data |-> R.data, selected |-> R.data[Pos(R.data, index)],
          err |-> "none", ret |-> R.data[Pos(R.data, index)]]

\* _AllLists.get(index) without default
get(R, index) ==
    IF ~InRange(R.data, index) THEN Raise(R, "IndexError")
    ELSE Ok(R, R.data[Pos(R.data, index)])

\* _AllLists.count_copies(value), value an object named nm
count_copies(R, nm) ==
    IF ~contains(R, nm) THEN 0
    ELSE Cardinality({i \in 1..Len(R.data) : fullmatch_copy(nm, names(R)[i])})

----------------------------------------------------------------------------
(* The heap.  Ids number the ResourcesArray objects in the order of their   *)
(* creation, at most MaxObjs of them; an object nothing refers to any more *)
(* is gone.                                                                *)

Free == {i \in Ids : lname[i] = NoName}
Fresh == CHOOSE i \in Free : \A j \in Free : i <= j

Collect(heap, R, gone) ==
    [i \in Ids |-> IF i \in Range(R.data) \/ i = R.selected \/ heap[i] = NoName
                   THEN heap[i] ELSE gone]

\* what a call records: the operation, its index argument (0 when it takes
\* none), the exception it raised, and whether the list it addressed was
\* the selected one
Call(op, arg, res, hit) ==
    [op |-> op, arg |-> arg, err |-> res.err, hit |-> hit, cli |-> FALSE]

Apply(op, arg, res, hit, nm, ct) ==
    /\ data' = res.data
    /\ selected' = res.selected
    /\ lname' = Collect(nm, res, Dead)
    /\ ldata' = [i \in Ids |-> IF lname'[i] = Dead THEN <<>> ELSE ct[i]]
    /\ call' = Call(op, arg, res, hit)

----------------------------------------------------------------------------
(* Spec: the registry API *)

\* ResourcesArray(name) with some content, then all_lists.add(it)
AddNew(nm, ct) ==
    /\ Len(data) < MaxLists
    /\ Free /= {}
    /\ Apply("add", 0, add(Reg, Fresh, nm), FALSE,
             [lname EXCEPT ![Fresh] = nm], [ldata EXCEPT ![Fresh] = ct])
    /\ UNCHANGED <<snapshot, fsvars>>

\* all_lists.add(value) with an object the registry already holds
AddMember(i) ==
    /\ i \in 1..Len(data)
    /\ Apply("add", 0, add(Reg, data[i], lname[data[i]]),
             data[i] = selected, lname, ldata)
    /\ UNCHANGED <<snapshot, fsvars>>

Pop(index) ==
    /\ Apply("pop", index, pop(Reg, index),
             InRange(data, index) /\ data[Pos(data, index)] = selected,
             lname, ldata)
    /\ UNCHANGED <<snapshot, fsvars>>

\* all_lists.remove(value): value a member, or an object that is not one
Remove(value) ==
    /\ Apply("remove", 0, remove(Reg, value), value = selected, lname, ldata)
    /\ UNCHANGED <<snapshot, fsvars>>

Select(index) ==
    /\ Apply("select", index, select(Reg, index),
             InRange(data, index) /\ data[Pos(data, index)] = selected,
             lname, ldata)
    /\ UNCHANGED <<snapshot, fsvars>>

\* names(), mention(), count_copies(value) for a member at position index,
\* get(index): read-only
Query(op, index) ==
    /\ op \in {"names", "mention", "count_copies", "get"}
    /\ op \in {"names", "mention"} => index = 0
    /\ op = "count_copies" => index >= 0 /\ InRange(data, index)
    /\ Apply(op, 0,
             IF op = "get" THEN get(Reg, index)
             ELSE IF op = "count_copies"
                  THEN Ok(Reg, count_copies(Reg, lname[data[Pos(data, index)]]))
                  ELSE Ok(Reg, None),
             FALSE, lname, ldata)
    /\ UNCHANGED <<snapshot, fsvars>>

\* all_lists.selected.add(value): ResourcesArray.add on the selected list
AddResource(r) ==
    /\ selected /= None
    /\ Len(ldata[selected]) < MaxContent
    /\ ldata' = [ldata EXCEPT ![selected] = Append(@, r)]
    /\ call' = Call("array.add", 0, Ok(Reg, None), TRUE)
    /\ UNCHANGED <<lname, data, selected, snapshot, fsvars>>

\* _AllLists.save
Save ==
    /\ snapshot' = dump(Reg)
    /\ call' = Call("save", 0, Ok(Reg, None), FALSE)
    /\ UNCHANGED <<lname, ldata, data, selected, fsvars>>

\* pickle.load(fp): every array of the file becomes a new object; the
\* reference written for _selected resolves to the new object built for
\* that position of _data.  base is the last id in use.
load_result(snap, base) ==
    LET n == Len(snap.arrays)
        m == n + Len(snap.selobj)
        arr(k) == IF k <= n THEN snap.arrays[k] ELSE snap.selobj[1]
        new == (base + 1)..(base + m)
    IN  [data |-> [k \in 1..n |-> base + k],
         selected |-> IF snap.sel /= 0 THEN base + snap.sel
                      ELSE IF snap.selobj /= <<>> THEN base + m ELSE None,
         lname |-> [i \in Ids |-> IF i \in new THEN arr(i - base).name ELSE lname[i]],
         ldata |-> [i \in Ids |->
                      IF i \in new
                      THEN [j \in 1..Len(arr(i - base).content) |->
                                setstate(arr(i - base).content[j])]
                      ELSE ldata[i]]]

\* _AllLists.load
load(snap, base) ==
    IF ~snap.present
    THEN [data |-> data, selected |-> selected, lname |-> lname, ldata |-> ldata]
    ELSE load_result(snap, base)

Load ==
    /\ Cardinality(Free) >= Len(snapshot.arrays) + Len(snapshot.selobj)
    /\ LET L == load(snapshot, MaxObjs - Cardinality(Free)) IN
       /\ data' = L.data
       /\ selected' = L.selected
       /\ lname' = Collect(L.lname, L, Dead)
       /\ ldata' = [i \in Ids |-> IF lname'[i] = Dead THEN <<>> ELSE L.ldata[i]]
       /\ call' = Call("load", 0, Ok(Reg, None), FALSE)
    /\ UNCHANGED <<snapshot, fsvars>>

----------------------------------------------------------------------------

NoCall ==
    [op |-> "init", arg |-> 0, err |-> "none", hit |-> FALSE, cli |-> FALSE]

NoResource == BackupFile("", "")

InitReg ==
    /\ lname = [i \in Ids |-> NoName]
    /\ ldata = [i \in Ids |-> <<>>]
    /\ data = <<>>
    /\ selected = None
    /\ snapshot = NoFile
    /\ call = NoCall

Refs == 1..2
NoArray == [name |-> "", ref |-> 0]
NoGen == [op |-> "none", state |-> "none", target |-> "", force |-> FALSE,
          orig |-> <<>>, start |-> 0, stop |-> 0, todo |-> <<>>, out |-> <<>>]

\* ResourcesArray.__init__(name): an empty list of its own
InitArr ==
    /\ lists = [ref \in Refs |-> <<>>]
    /\ array = [name |-> "L", ref |-> 1]
    /\ view = NoArray
    /\ gen = NoGen

InitFS ==
    /\ rsrc = NoResource
    /\ ofs = Absent
    /\ dfs = Absent
    /\ zfs = Absent
    /\ InitArr

Init == InitReg /\ InitFS


\* the registry driven through its API
Next ==
    \/ \E nm \in UserNames : AddNew(nm, <<>>)
    \/ \E i \in 1..MaxLists : AddMember(i)
    \/ \E index \in Indexes : Pop(index)
    \/ \E value \in Ids : Remove(value)
    \/ \E index \in Indexes : Select(index)
    \/ \E op \in {"names", "mention", "count_copies", "get"}, index \in Indexes : Query(op, index)

Spec == Init /\ [][Next]_vars

\* the same, with save() and load(), over the two names of SavedNames
SavedNames == {Name("A"), Name("B")}

NextSave ==
    \/ \E nm \in SavedNames : AddNew(nm, <<>>)
    \/ \E i \in 1..MaxLists : AddMember(i)
    \/ \E index \in Indexes : Pop(index)
    \/ \E value \in Ids : Remove(value)
    \/ \E index \in Indexes : Select(index)
    \/ \E op \in {"names", "mention", "count_copies", "get"}, index \in Indexes : Query(op, index)
    \/ Save
    \/ Load

SpecSave == Init /\ [][NextSave]_vars

----------------------------------------------------------------------------
(* SpecFS: one resource and what is at its origin and its destiny *)

OriginEntries == {NoEntry} \cup {Entry(t, "x") : t \in Times}
DestinyEntries == {NoEntry} \cup {Entry(t, b) : t \in Times, b \in Bytes}
\* date_time of an archive member: whole seconds
ArchiveEntries == {NoEntry} \cup {Entry(2 * trunc(t), b) : t \in Times, b \in Bytes}

Files == {File(t, b) : t \in Times, b \in Bytes}

FileWorlds ==
    [r : {BackupFile("o1", "d1")},
     o : {Absent, Dir(NoFiles)} \cup Files,
     d : {Absent, Dir(NoFiles)} \cup Files
         \cup {Zip(MaxTick, [NoFiles EXCEPT !["a"] = e]) : e \in ArchiveEntries}]

DirWorlds ==
    [r : {BackupDir("o2", "d2", FALSE), BackupDir("o2", "d2", TRUE)},
     o : {Absent} \cup {Dir(fs) : fs \in Holding(OriginEntries)},
     d : {Absent, File(0, "x")} \cup {Dir(fs) : fs \in Holding(DestinyEntries)}]
    \cup
    [r : {BackupDir("o2", "d2.zip", TRUE)},
     o : {Absent} \cup {Dir(fs) : fs \in Holding(OriginEntries)},
     d : {Absent, File(0, "x")}
         \cup {Zip(t, fs) : t \in {0, MaxTick}, fs \in Holding(ArchiveEntries)}]

InitWorld ==
    \E w \in FileWorlds \cup DirWorlds :
        rsrc = w.r /\ ofs = w.o /\ dfs = w.d /\ zfs = Absent /\ InitArr

FsCall(op, at, strict, res) ==
    [op |-> op, at |-> at, strict |-> strict, err |-> res.err, ret |-> res.ret]

\* resource.are_different(strict)
AreDifferent(strict) ==
    /\ \E res \in are_different(rsrc, ofs, dfs, strict) :
           call' = FsCall("are_different", "", strict, res)
    /\ UNCHANGED <<regvars, fsvars>>

\* are_different(strict) of a file of the walk of a directory resource
WalkedAreDifferent(at, strict) ==
    /\ rsrc.type = "dir"
    /\ at \in walk(get_source(ofs, dfs))
    /\ call' = FsCall("file.are_different", at, strict,
                      walked_are_different(rsrc, ofs, dfs, at, strict))
    /\ UNCHANGED <<regvars, fsvars>>

NextFS ==
    \/ \E strict \in BOOLEAN : AreDifferent(strict)
    \/ \E at \in Members, strict \in BOOLEAN : WalkedAreDifferent(at, strict)

InitDisk == InitReg /\ InitWorld

SpecFS == InitDisk /\ [][NextFS]_vars

\* lists with content, saved and loaded
NextPickle ==
    \/ \E nm \in SavedNames : AddNew(nm, <<>>)
    \/ \E r \in ResourcePool : AddResource(r)
    \/ \E index \in 0..(MaxLists - 1) : Select(index)
    \/ Save
    \/ Load

SpecPickle == Init /\ [][NextPickle]_vars

----------------------------------------------------------------------------
(* SpecCLI: the "list ..." commands of main() *)

\* an exception that leaves main() ends the program; a refused command
\* prints a message and the loop goes on
Crashed == call.err \in {"RepetitionError", "IndexError", "ValueError"} /\ call.cli
Refused(R) == [data |-> R.data, selected |-> R.selected, err |-> "refused", ret |-> None]

\* check_index(num, allow_slice=False): num is a string of digits that is
\* the number of a position; TRUE when the index is accepted
check_index(R, num) == num >= 0 /\ num < Len(R.data)

\* check_index(num) for a slice start:stop; TRUE when accepted
check_slice(R, start, stop) == ~(start < 0 \/ stop > Len(R.data))

\* all_lists[slice(start, stop)]
Slice(d, start, stop) == SubSeq(d, start + 1, stop)

CliCall(op, arg, err) == [op |-> op, arg |-> arg, err |-> err, hit |-> FALSE, cli |-> TRUE]

CliApply(op, arg, S) ==
    /\ data' = S.data
    /\ selected' = S.selected
    /\ lname' = Collect(S.lname, S, Dead)
    /\ ldata' = [i \in Ids |-> IF lname'[i] = Dead THEN <<>> ELSE S.ldata[i]]
    /\ call' = CliCall(op, arg, S.err)

Heap == [data |-> data, selected |-> selected, lname |-> lname, ldata |-> ldata, err |-> "none"]

\* the next id
FreshIn(S) ==
    CHOOSE i \in Ids : S.lname[i] = NoName /\ \A j \in Ids : S.lname[j] = NoName => i <= j

\* all_lists.add(array) for a new array with this name and content
add_new(S, nm, ct) ==
    LET id == FreshIn(S)
        res == add(S, id, nm)
    IN  IF res.err /= "none"
        THEN [S EXCEPT !.err = res.err]
        ELSE [data |-> res.data, selected |-> res.selected,
              lname |-> [S.lname EXCEPT ![id] = nm],
              ldata |-> [S.ldata EXCEPT ![id] = ct], err |-> "none"]

\* list create NAME
ListCreate(nm) ==
    /\ ~Crashed
    /\ Len(data) < MaxLists /\ Free /= {}
    /\ CliApply("list create", 0,
                IF nm \in Range(names(Reg))
                THEN [Heap EXCEPT !.err = "refused"]
                ELSE add_new(Heap, nm, <<>>))
    /\ UNCHANGED <<snapshot, fsvars>>

\* list import: the file names the list; the user confirms or not
ListImport(nm, ct, confirm) ==
    /\ ~Crashed
    /\ Len(data) < MaxLists /\ Free /= {}
    /\ CliApply("list import", 0,
                IF contains(Reg, nm) \/ ~confirm
                THEN [Heap EXCEPT !.err = "refused"]
                ELSE add_new(Heap, nm, ct))
    /\ UNCHANGED <<snapshot, fsvars>>

\* variant: rename without the look-up of the new name
ListRenameUnchecked(num, new, confirm) ==
    /\ ~Crashed
    /\ CliApply("list rename", num,
                IF ~check_index(Reg, num) \/ ~confirm
                THEN [Heap EXCEPT !.err = "refused"]
                ELSE [Heap EXCEPT !.lname[data[num + 1]] = new])
    /\ UNCHANGED <<snapshot, fsvars>>

\* list rename INDEX NEW_NAME, confirmed or not
ListRename(num, new, confirm) ==
    /\ ~Crashed
    /\ CliApply("list rename", num,
                IF ~check_index(Reg, num) \/ new \in Range(names(Reg)) \/ ~confirm
                THEN [Heap EXCEPT !.err = "refused"]
                ELSE [Heap EXCEPT !.lname[data[num + 1]] = new])
    /\ UNCHANGED <<snapshot, fsvars>>

\* list select INDEX
ListSelect(num) ==
    /\ ~Crashed
    /\ LET res == IF check_index(Reg, num) THEN select(Reg, num) ELSE Refused(Reg) IN
       CliApply("list select", num,
                [Heap EXCEPT !.selected = res.selected, !.err = res.err])
    /\ UNCHANGED <<snapshot, fsvars>>

\* for rarray in all_lists[index]: all_lists.remove(rarray)
RECURSIVE remove_all(_, _)
remove_all(S, todo) ==
    IF todo = <<>> THEN S
    ELSE LET res == remove(S, Head(todo)) IN
         IF res.err /= "none"
         THEN [S EXCEPT !.selected = res.selected, !.err = res.err]
         ELSE remove_all([S EXCEPT !.data = res.data, !.selected = res.selected],
                         Tail(todo))

\* list pop START:STOP (list pop INDEX is INDEX:INDEX+1)
ListPop(start, stop) ==
    /\ ~Crashed
    /\ CliApply("list pop", start,
                IF ~check_slice(Reg, start, stop)
                THEN [Heap EXCEPT !.err = "refused"]
                ELSE remove_all(Heap, Slice(data, start, stop)))
    /\ UNCHANGED <<snapshot, fsvars>>

\* f"Copy {all_lists.count_copies(rarray)} of {rarray.name}"
clone_name(S, nm) == CopyName(count_copies(S, nm), nm)

\* rarray.copy(name): a new array with that name and a copy of the content
copy(S, id, nm) == [name |-> nm, content |-> S.ldata[id]]

\* for rarray in all_lists[index]: all_lists.add(rarray.copy(name))
RECURSIVE clone_all(_, _)
clone_all(S, todo) ==
    IF todo = <<>> THEN S
    ELSE LET cp == copy(S, Head(todo), clone_name(S, S.lname[Head(todo)]))
             res == add_new(S, cp.name, cp.content)
         IN  IF res.err /= "none" THEN res ELSE clone_all(res, Tail(todo))

\* list clone START:STOP (list clone INDEX is INDEX:INDEX+1)
ListClone(start, stop) ==
    /\ ~Crashed
    /\ check_slice(Reg, start, stop) =>
          /\ Len(data) + Len(Slice(data, start, stop)) <= MaxLists
          /\ Len(Slice(data, start, stop)) <= Cardinality(Free)
          /\ \A i \in (start + 1)..stop : Len(lname[data[i]].pre) < MaxCopyDepth
    /\ CliApply("list clone", start,
                IF ~check_slice(Reg, start, stop)
                THEN [Heap EXCEPT !.err = "refused"]
                ELSE clone_all(Heap, Slice(data, start, stop)))
    /\ UNCHANGED <<snapshot, fsvars>>

CliNames == {Name("A"), Name("B")}
Slices == {<<a, b>> \in ((0 - 1)..MaxLists) \X (0..(MaxLists + 1)) : a < b /\ b <= a + 2}

NextCLI ==
    \/ \E nm \in CliNames : ListCreate(nm)
    \/ \E nm \in CliNames, confirm \in BOOLEAN : ListImport(nm, <<>>, confirm)
    \/ \E num \in Indexes, new \in CliNames, confirm \in BOOLEAN : ListRename(num, new, confirm)
    \/ \E num \in Indexes : ListSelect(num)
    \/ \E sl \in Slices : ListPop(sl[1], sl[2])
    \/ \E sl \in Slices : ListClone(sl[1], sl[2])
    \/ \E nm \in CliNames : ~Crashed /\ Len(data) < MaxLists /\ AddNew(nm, <<>>)
    \/ \E index \in Indexes : ~Crashed /\ Pop(index)
    \/ \E value \in Ids : ~Crashed /\ Remove(value)

SpecCLI == Init /\ [][NextCLI]_vars

\* lists are created, cloned and removed
NextClone ==
    \/ \E nm \in CliNames : ListCreate(nm)
    \/ \E sl \in Slices : ListPop(sl[1], sl[2])
    \/ \E sl \in Slices : ListClone(sl[1], sl[2])

SpecClone == Init /\ [][NextClone]_vars

----------------------------------------------------------------------------
(* backup and restore of one resource.  An outcome is the result of the     *)
(* call, what is at the three paths after it, and whether _last_backup was  *)
(* assigned.                                                                *)

Outcome(res, o, d, z, stamp) ==
    [err |-> res.err, ret |-> res.ret, o |-> o, d |-> d, z |-> z, stamp |-> stamp]

\* Path.name
name(path) ==
    IF path \in {"o1/a", "d1/a", "o2/a", "d2/a"} THEN "a"
    ELSE IF path \in {"o2/b.zip", "d2/b.zip"} THEN "b.zip"
    ELSE IF path \in {"o2/c", "d2/c"} THEN "c"
    ELSE path

\* BackupFile.in_dir(origin / at, destiny / (at or ''), at) as walk(src)
\* builds it
in_dir(r, src, at) ==
    [BackupFile(r.origin \o "/" \o at,
                IF is_zipfile(src) \/ suffix(r.destiny) = ".zip" THEN r.destiny
                ELSE r.destiny \o "/" \o at)
     EXCEPT !.at = at]

\* variant: no file counts as a file inside an archive
is_extfile_never(r, d) == FALSE

\* BackupFile.is_extfile, d being what is at the destiny
is_extfile(r, d) == (is_zipfile(d) \/ suffix(r.destiny) = ".zip") /\ r.at /= ""

\* the time an archive keeps for a member: date_time has two-second steps
dostime(t) == 4 * (t \div 4)

\* shutil.copy2(src, dst) of a path of the name nm: the new dst, or a
\* failure.  A directory cannot be read; a directory as dst receives the
\* copy under the name of the source; the modification time is kept.
copy2(src, dst, nm) ==
    IF src.kind \in {"dir", "absent"} THEN [ok |-> FALSE, dst |-> dst]
    ELSE IF dst.kind = "dir"
    THEN [ok |-> TRUE,
          dst |-> Dir([dst.files EXCEPT ![nm] = Entry(src.mtime, src.bytes)])]
    ELSE [ok |-> TRUE, dst |-> src]

\* variant: the time of the backup is taken before the copy is tried
file_backup_stamps_first(r, o, d, z, force) ==
    IF is_extfile(r, d) THEN Outcome(Returns(FALSE), o, d, z, FALSE)
    ELSE IF ~exists(o) THEN Outcome(Returns(FALSE), o, d, z, FALSE)
    ELSE LET diff == file_are_different(o, d, r.at, FALSE)
             cp == copy2(o, d, name(r.origin))
         IN  IF ~force /\ diff.err /= "none" THEN Outcome(diff, o, d, z, FALSE)
             ELSE IF ~force /\ ~diff.ret THEN Outcome(Returns(FALSE), o, d, z, FALSE)
             ELSE Outcome(Returns(cp.ok), o, cp.dst, z, TRUE)

\* BackupFile.backup(force).  are_different is called outside the try.
file_backup(r, o, d, z, force) ==
    IF is_extfile(r, d) THEN Outcome(Returns(FALSE), o, d, z, FALSE)
    ELSE IF ~exists(o) THEN Outcome(Returns(FALSE), o, d, z, FALSE)
    ELSE LET diff == file_are_different(o, d, r.at, FALSE)
             cp == copy2(o, d, name(r.origin))
         IN  IF ~force /\ diff.err /= "none" THEN Outcome(diff, o, d, z, FALSE)
             ELSE IF ~force /\ ~diff.ret THEN Outcome(Returns(FALSE), o, d, z, FALSE)
             ELSE Outcome(Returns(cp.ok), o, cp.dst, z, cp.ok)

\* BackupFile.restore(force)
file_restore(r, o, d, z, force) ==
    IF is_extfile(r, d) THEN Outcome(Returns(FALSE), o, d, z, FALSE)
    ELSE IF ~exists(d) THEN Outcome(Returns(FALSE), o, d, z, FALSE)
    ELSE LET diff == file_are_different(o, d, r.at, FALSE)
             cp == copy2(d, o, name(r.destiny))
         IN  IF ~force /\ diff.err /= "none" THEN Outcome(diff, o, d, z, FALSE)
             ELSE IF ~force /\ ~diff.ret THEN Outcome(Returns(FALSE), o, d, z, FALSE)
             ELSE Outcome(Returns(cp.ok), cp.dst, d, z, FALSE)

\* the file at the relative path at of a directory becomes the file node
put(dir, at, node) ==
    Dir([dir.files EXCEPT ![at] = Entry(node.mtime, node.bytes)])

\* Path.mkdir(parents=True, exist_ok=True): the directory, or a failure when
\* something else is at the path
mkdir(node) ==
    IF node.kind = "absent" THEN [ok |-> TRUE, node |-> Dir(NoFiles)]
    ELSE [ok |-> node.kind = "dir", node |-> node]

\* the files walk(src) yields have a path of their own below the destiny
own_destiny(r, src) == ~(is_zipfile(src) \/ suffix(r.destiny) = ".zip")

\* the loop of BackupDir.backup over walk('o'), todo being the files not yet
\* reached: the directory at the destiny and the result after it, for each
\* order of the walk.  The first file whose backup returns False, or an
\* exception, ends the loop with False.
RECURSIVE backup_walk(_, _, _, _, _)
backup_walk(r, o, d, todo, force) ==
    IF todo = {} THEN {[ret |-> TRUE, d |-> d]}
    ELSE UNION { LET made == IF own_destiny(r, o) THEN mkdir(d)
                             ELSE [ok |-> TRUE, node |-> d]
                     out == file_backup(in_dir(r, o, at), member_origin(o, at),
                                        member_destiny(r, o, made.node, at),
                                        Absent, force)
                 IN  IF ~made.ok THEN {[ret |-> FALSE, d |-> d]}
                     ELSE IF out.err /= "none" \/ ~out.ret
                     THEN {[ret |-> FALSE, d |-> made.node]}
                     ELSE backup_walk(r, o, put(made.node, at, out.d),
                                      todo \ {at}, force)
               : at \in todo }

\* variant: the archive is opened with "a", the members it has are kept
save_compressed_append(r, o, d, z) ==
    LET before == IF d.kind = "dir" THEN z ELSE d
        written == Zip(MaxTick,
                       [m \in Members |->
                           IF o.kind = "dir" /\ o.files[m].present
                           THEN Entry(dostime(o.files[m].mtime), o.files[m].bytes)
                           ELSE IF is_zipfile(before) THEN before.files[m]
                           ELSE NoEntry])
    IN  IF d.kind = "dir" THEN Outcome(Returns(TRUE), o, d, written, TRUE)
        ELSE Outcome(Returns(TRUE), o, written, z, TRUE)

\* BackupDir._save_compressed: the archive is written at the destiny, or
\* below it when the destiny is a directory; os.walk of a missing origin
\* yields no file
save_compressed(r, o, d, z) ==
    LET written == Zip(MaxTick,
                       [m \in Members |->
                           IF o.kind = "dir" /\ o.files[m].present
                           THEN Entry(dostime(o.files[m].mtime), o.files[m].bytes)
                           ELSE NoEntry])
    IN  IF d.kind = "dir" THEN Outcome(Returns(TRUE), o, d, written, TRUE)
        ELSE Outcome(Returns(TRUE), o, written, z, TRUE)

\* BackupDir.backup(force): the outcomes, one for each order of the walks.
\* are_different is called outside the try.
dir_backup(r, o, d, z, force) ==
    UNION { IF ~force /\ diff.err /= "none" THEN {Outcome(diff, o, d, z, FALSE)}
            ELSE IF ~force /\ ~diff.ret
            THEN {Outcome(Returns(FALSE), o, d, z, FALSE)}
            ELSE IF r.compress THEN {save_compressed(r, o, d, z)}
            ELSE {Outcome(Returns(w.ret), o, w.d, z, w.ret)
                    : w \in backup_walk(r, o, d, walk(o), force)}
          : diff \in IF force THEN {Returns(TRUE)}
                     ELSE dir_are_different(r, o, d, FALSE) }

\* backup(force) of the resource r
backup(r, o, d, z, force) ==
    IF r.type = "file" THEN {file_backup(r, o, d, z, force)}
    ELSE dir_backup(r, o, d, z, force)

\* the loop of BackupDir.restore over walk('d') of a directory, todo being
\* the files not yet reached; the archive _save_compressed left below the
\* destiny is one of them, under nested
RECURSIVE restore_walk(_, _, _, _, _)
restore_walk(r, o, d, todo, nested) ==
    IF todo = {} THEN {[ret |-> TRUE, o |-> o]}
    ELSE UNION { LET made == mkdir(o)
                     out == IF at = nested
                            THEN Outcome(Returns(FALSE), made.node, d, Absent, FALSE)
                            ELSE file_restore(in_dir(r, d, at),
                                              member_origin(made.node, at),
                                              member_destiny(r, d, d, at),
                                              Absent, FALSE)
                 IN  IF ~made.ok THEN {[ret |-> FALSE, o |-> o]}
                     ELSE IF out.err /= "none" \/ ~out.ret
                     THEN {[ret |-> FALSE, o |-> made.node]}
                     ELSE restore_walk(r, put(made.node, at, out.o), d,
                                       todo \ {at}, nested)
               : at \in todo }

\* ZipFile(destiny).extractall(origin): the members are written below the
\* origin with the time of the extraction
extractall(o, d) ==
    IF ~is_zipfile(d) \/ ~mkdir(o).ok THEN [ok |-> FALSE, o |-> o]
    ELSE [ok |-> TRUE,
          o |-> Dir([m \in Members |->
                       IF d.files[m].present THEN Entry(MaxTick, d.files[m].bytes)
                       ELSE mkdir(o).node.files[m]])]

\* BackupDir.restore(force): the outcomes, one for each order of the walks
dir_restore(r, o, d, z, force) ==
    UNION { IF ~force /\ diff.err /= "none" THEN {Outcome(diff, o, d, z, FALSE)}
            ELSE IF ~force /\ ~diff.ret
            THEN {Outcome(Returns(FALSE), o, d, z, FALSE)}
            ELSE IF d.kind = "dir"
            THEN LET nested == name(r.origin) \o ".zip"
                 IN  {Outcome(Returns(w.ret), w.o, d, z, FALSE)
                        : w \in restore_walk(r, o, d,
                                   walk(d) \cup (IF exists(z) THEN {nested} ELSE {}),
                                   nested)}
            ELSE {Outcome(Returns(extractall(o, d).ok), extractall(o, d).o, d, z, FALSE)}
          : diff \in IF force THEN {Returns(TRUE)}
                     ELSE dir_are_different(r, o, d, FALSE) }

\* restore(force) of the resource r
restore(r, o, d, z, force) ==
    IF r.type = "file" THEN {file_restore(r, o, d, z, force)}
    ELSE dir_restore(r, o, d, z, force)

----------------------------------------------------------------------------
(* SpecBackup: one resource, backed up and restored *)

SeedEntries == {NoEntry, Entry(0, "y"), Entry(4, "y")}

FileBackupWorlds ==
    [r : {BackupFile("o1/a", "d1/a")},
     o : {Absent, Dir(NoFiles), Zip(1, NoFiles)} \cup Files,
     d : {Absent, Dir(NoFiles), Zip(0, NoFiles)} \cup Files]

DirBackupWorlds ==
    [r : {BackupDir("o2", "d2", FALSE), BackupDir("o2", "d2", TRUE)},
     o : {Absent} \cup {Dir(fs) : fs \in Holding(OriginEntries)},
     d : {Absent} \cup {Dir(fs) : fs \in Holding(SeedEntries)}]
    \cup
    [r : {BackupDir("o2", "d2.zip", TRUE)},
     o : {Absent} \cup {Dir(fs) : fs \in Holding(OriginEntries)},
     d : {Absent} \cup {Zip(0, fs) : fs \in Holding(SeedEntries)}]

InitBackup ==
    /\ InitReg
    /\ \E w \in FileBackupWorlds \cup DirBackupWorlds :
           rsrc = w.r /\ ofs = w.o /\ dfs = w.d /\ zfs = Absent /\ InitArr

BkCall(op, force, out) ==
    [op |-> op, force |-> force, err |-> out.err, ret |-> out.ret]

\* the resource and the paths after a call with the outcome out;
\* datetime.now() is the number of the backup
Done(op, force, out) ==
    /\ call' = BkCall(op, force, out)
    /\ rsrc' = IF out.stamp THEN [rsrc EXCEPT !.last_backup = @ + 1] ELSE rsrc
    /\ ofs' = out.o
    /\ dfs' = out.d
    /\ zfs' = out.z
    /\ UNCHANGED <<regvars, arrvars>>

\* resource.backup(force)
Backup(force) ==
    /\ rsrc.last_backup + 1 < MaxBackups
    /\ \E out \in backup(rsrc, ofs, dfs, zfs, force) : Done("backup", force, out)

\* resource.restore(force)
Restore(force) ==
    \E out \in restore(rsrc, ofs, dfs, zfs, force) : Done("restore", force, out)

\* resource.are_different(strict)
Ask(strict) ==
    \E res \in are_different(rsrc, ofs, dfs, strict) :
        Done("are_different", strict, Outcome(res, ofs, dfs, zfs, FALSE))

\* the user saves the file, or the file a of the directory, again
Edit ==
    /\ call.op /= "edit"
    /\ \/ ofs.kind = "file" /\ ofs' = File(MaxTick, "y")
       \/ ofs.kind = "dir" /\ ofs.files["a"].present
          /\ ofs' = put(ofs, "a", File(MaxTick, "y"))
    /\ call' = BkCall("edit", FALSE, Returns(FALSE))
    /\ UNCHANGED <<regvars, rsrc, dfs, zfs, arrvars>>

NextBackup ==
    \/ \E force \in BOOLEAN : Backup(force)
    \/ \E force \in BOOLEAN : Restore(force)
    \/ \E strict \in BOOLEAN : Ask(strict)
    \/ Edit

SpecBackup == InitBackup /\ [][NextBackup]_vars

----------------------------------------------------------------------------
(* ResourcesArray.  A resource of a list is an object: its number, the      *)
(* BackupFile / BackupDir and what is at its three paths.                   *)

Element(id, r, o, d, z) == [id |-> id, r |-> r, o |-> o, d |-> d, z |-> z]

\* BackupMeta.__eq__ with BackupFile.__eq__ and BackupDir.__eq__: the class,
\* the two paths and _at or _compress; never _last_backup
eq(x, y) ==
    /\ x.r.type = y.r.type
    /\ x.r.origin = y.r.origin /\ x.r.destiny = y.r.destiny
    /\ IF x.r.type = "file" THEN x.r.at = y.r.at ELSE x.r.compress = y.r.compress

\* list[slice(start, stop)]
getslice(s, start, stop) ==
    LET clamp(i) == IF i < 0 THEN (IF Len(s) + i < 0 THEN 0 ELSE Len(s) + i)
                    ELSE (IF i > Len(s) THEN Len(s) ELSE i)
    IN  SubSeq(s, clamp(start) + 1, clamp(stop))

\* list.remove(value): the first element equal to value goes, ValueError
\* when there is none
list_remove(s, value) ==
    IF \E i \in 1..Len(s) : eq(s[i], value)
    THEN [err |-> "none",
          data |-> RemoveAt(s, CHOOSE i \in 1..Len(s) :
                                  /\ eq(s[i], value)
                                  /\ \A j \in 1..(i - 1) : ~eq(s[j], value))]
    ELSE [err |-> "ValueError", data |-> s]

\* ResourcesArray.__contains__(value) over the list s: the pair of the two
\* paths of value is looked for among the pairs of the elements
array_contains(s, value) ==
    \E i \in 1..Len(s) :
        <<value.origin, value.destiny>> = <<s[i].r.origin, s[i].r.destiny>>

IsFile(e) == e.r.type = "file"
IsDir(e) == e.r.type = "dir"

\* variant: the new array keeps the list of the old one
files_only_shared(A, heap, ref) ==
    [array |-> [name |-> A.name, ref |-> A.ref], lists |-> heap]

\* ResourcesArray.files_only: a new array of the same name over a new list,
\* at the reference ref, of the BackupFile elements
files_only(A, heap, ref) ==
    [array |-> [name |-> A.name, ref |-> ref],
     lists |-> [heap EXCEPT ![ref] = SelectSeq(heap[A.ref], IsFile)]]

\* ResourcesArray.dirs_only
dirs_only(A, heap, ref) ==
    [array |-> [name |-> A.name, ref |-> ref],
     lists |-> [heap EXCEPT ![ref] = SelectSeq(heap[A.ref], IsDir)]]

\* one step of the generator ResourcesArray.pop(index) returned, over the
\* list s: self._data.remove(meta); yield meta
pop_next(g, s) ==
    IF g.todo = <<>> THEN [gen |-> [g EXCEPT !.state = "done"], data |-> s]
    ELSE LET removed == list_remove(s, Head(g.todo))
         IN  IF removed.err /= "none"
             THEN [gen |-> [g EXCEPT !.state = "raised"], data |-> s]
             ELSE [gen |-> [g EXCEPT !.todo = Tail(@),
                                     !.out = Append(@, Head(g.todo))],
                   data |-> removed.data]

----------------------------------------------------------------------------
(* SpecArray: resources are built and added, removed and popped; the list   *)
(* is filtered                                                              *)

ArrayResources == {BackupFile("o1/a", "d1/a"), BackupDir("o2", "d2", FALSE)}
BuiltFrom == {Absent, File(0, "x"), Dir(NoFiles)}
Targets == {"array", "view"}

\* what the dialogs of get_file and get_dir let the user pick as origin
Picked(r) == IF r.type = "file" THEN File(0, "x") ELSE Dir(NoFiles)

Obj(t) == IF t = "array" THEN array ELSE view

\* the numbers of the objects the lists hold
UsedIds == UNION {{lists[ref][i].id : i \in 1..Len(lists[ref])} : ref \in Refs}

ArrCall(op, t, err) == [op |-> op, target |-> t, err |-> err]

Idle == gen.state /= "running"

\* the reference a new list gets: one that array does not hold
NewRef == CHOOSE ref \in Refs : ref /= array.ref

\* t.add(BackupFile(origin, destiny)) or t.add(BackupDir(origin, destiny)),
\* o being what is at the origin: __init__ only stores the paths
ArrayAdd(t, r, o) ==
    /\ Idle /\ Obj(t) /= NoArray
    /\ Len(lists[Obj(t).ref]) < MaxArr
    /\ \E id \in 1..MaxArr :
          /\ id \notin UsedIds /\ \A j \in 1..(id - 1) : j \in UsedIds
          /\ lists' = [lists EXCEPT ![Obj(t).ref] =
                           Append(@, Element(id, r, o, Absent, Absent))]
    /\ call' = ArrCall("add", t, "none")
    /\ gen' = NoGen
    /\ UNCHANGED <<regvars, rsrc, ofs, dfs, zfs, array, view>>

\* t.remove(value), value being the element at the position i of array
ArrayRemove(t, i) ==
    /\ Idle /\ Obj(t) /= NoArray
    /\ i \in 1..Len(lists[array.ref])
    /\ LET removed == list_remove(lists[Obj(t).ref], lists[array.ref][i])
       IN  /\ lists' = [lists EXCEPT ![Obj(t).ref] = removed.data]
           /\ call' = ArrCall("remove", t, removed.err)
    /\ gen' = NoGen
    /\ UNCHANGED <<regvars, rsrc, ofs, dfs, zfs, array, view>>

\* t.clear()
ArrayClear(t) ==
    /\ Idle /\ Obj(t) /= NoArray
    /\ lists' = [lists EXCEPT ![Obj(t).ref] = <<>>]
    /\ call' = ArrCall("clear", t, "none")
    /\ gen' = NoGen
    /\ UNCHANGED <<regvars, rsrc, ofs, dfs, zfs, array, view>>

\* for meta in t.pop(slice(start, stop)): the loop is entered
ArrayPop(t, start, stop) ==
    /\ Idle /\ Obj(t) /= NoArray
    /\ gen' = [NoGen EXCEPT !.op = "pop", !.state = "running", !.target = t,
                            !.orig = lists[Obj(t).ref],
                            !.start = start, !.stop = stop,
                            !.todo = getslice(lists[Obj(t).ref], start, stop)]
    /\ call' = ArrCall("pop", t, "none")
    /\ UNCHANGED <<regvars, rsrc, ofs, dfs, zfs, array, view, lists>>

\* the loop asks the generator for the next resource
ArrayPopNext ==
    /\ gen.op = "pop" /\ gen.state = "running"
    /\ LET step == pop_next(gen, lists[Obj(gen.target).ref])
       IN  /\ gen' = step.gen
           /\ lists' = [lists EXCEPT ![Obj(gen.target).ref] = step.data]
           /\ call' = ArrCall("next", gen.target,
                              IF step.gen.state = "raised" THEN "ValueError"
                              ELSE "none")
    /\ UNCHANGED <<regvars, rsrc, ofs, dfs, zfs, array, view>>

\* view = array.files_only()
FilesOnly ==
    /\ Idle
    /\ LET new == files_only(array, [lists EXCEPT ![NewRef] = <<>>], NewRef)
       IN  view' = new.array /\ lists' = new.lists
    /\ call' = ArrCall("files_only", "array", "none")
    /\ gen' = NoGen
    /\ UNCHANGED <<regvars, rsrc, ofs, dfs, zfs, array>>

\* view = array.dirs_only()
DirsOnly ==
    /\ Idle
    /\ LET new == dirs_only(array, [lists EXCEPT ![NewRef] = <<>>], NewRef)
       IN  view' = new.array /\ lists' = new.lists
    /\ call' = ArrCall("dirs_only", "array", "none")
    /\ gen' = NoGen
    /\ UNCHANGED <<regvars, rsrc, ofs, dfs, zfs, array>>

PopSlices == {<<a, b>> \in (0..(MaxArr - 1)) \X (1..MaxArr) : a < b}

NextArray ==
    \/ \E r \in ArrayResources : ArrayAdd("array", r, Picked(r))
    \/ ArrayAdd("view", BackupFile("o1/a", "d1/a"), File(0, "x"))
    \/ \E t \in Targets, i \in 1..MaxArr : ArrayRemove(t, i)
    \/ \E t \in Targets : ArrayClear(t)
    \/ \E t \in Targets, sl \in PopSlices : ArrayPop(t, sl[1], sl[2])
    \/ ArrayPopNext
    \/ FilesOnly
    \/ DirsOnly

SpecArray == Init /\ [][NextArray]_vars

\* the resources asked for: those added, a directory with the paths of
\* the one added but compressed, and a file with the paths of that directory
Asked ==
    ArrayResources \cup {BackupDir("o2", "d2", TRUE), BackupFile("o2", "d2")}

\* value in array
ArrayContains(value) ==
    /\ Idle
    /\ call' = [op |-> "contains", target |-> "array", err |-> "none",
                value |-> value,
                ret |-> array_contains(lists[array.ref], value)]
    /\ UNCHANGED <<regvars, fsvars>>

\* resources are built from any path and added, and looked for
NextBuild ==
    \/ \E r \in ArrayResources, o \in BuiltFrom : ArrayAdd("array", r, o)
    \/ \E i \in 1..MaxArr : ArrayRemove("array", i)
    \/ ArrayClear("array")
    \/ \E value \in Asked : ArrayContains(value)

SpecBuild == Init /\ [][NextBuild]_vars

----------------------------------------------------------------------------
(* SpecRun: ResourcesArray.backup / ResourcesArray.restore, the generator   *)
(* consumed one outcome at a time                                           *)

\* the element of the list s that is the object e
Current(s, e) == s[CHOOSE i \in 1..Len(s) : s[i].id = e.id]

\* the list s after the object e has been given the outcome out
Settle(s, e, out) ==
    [i \in 1..Len(s) |->
        IF s[i].id /= e.id THEN s[i]
        ELSE [s[i] EXCEPT !.o = out.o, !.d = out.d, !.z = out.z,
                          !.r.last_backup = IF out.stamp THEN @ + 1 ELSE @]]

\* meta.backup(force=force) or meta.restore(force=force) of the object e
Outcomes(op, e, force) ==
    IF op = "backup" THEN backup(e.r, e.o, e.d, e.z, force)
    ELSE restore(e.r, e.o, e.d, e.z, force)

\* variant: the resource after the one yielded is worked on ahead
run_next_ahead(g, s) ==
    IF g.todo = <<>> THEN {[gen |-> [g EXCEPT !.state = "done"], data |-> s]}
    ELSE UNION { IF out.err /= "none"
                 THEN {[gen |-> [g EXCEPT !.state = "raised"], data |-> s]}
                 ELSE LET done == Settle(s, Head(g.todo), out)
                          g2 == [g EXCEPT !.todo = Tail(@),
                                          !.out = Append(@, [ret |-> out.ret,
                                                             id |-> Head(g.todo).id])]
                      IN  IF g2.todo = <<>> THEN {[gen |-> g2, data |-> done]}
                          ELSE {[gen |-> g2, data |-> Settle(done, Head(g2.todo), nxt)]
                                 : nxt \in Outcomes(g.op, Current(done, Head(g2.todo)),
                                                    g.force)}
               : out \in Outcomes(g.op, Current(s, Head(g.todo)), g.force) }

\* one step of the generator ResourcesArray.backup / restore returned:
\* yield (meta.backup(force=force), meta); an exception ends the generator
run_next(g, s) ==
    IF g.todo = <<>> THEN {[gen |-> [g EXCEPT !.state = "done"], data |-> s]}
    ELSE { IF out.err /= "none"
           THEN [gen |-> [g EXCEPT !.state = "raised"], data |-> s]
           ELSE [gen |-> [g EXCEPT !.todo = Tail(@),
                                   !.out = Append(@, [ret |-> out.ret,
                                                      id |-> Head(g.todo).id])],
                 data |-> Settle(s, Head(g.todo), out)]
         : out \in Outcomes(g.op, Current(s, Head(g.todo)), g.force) }

\* a file, a directory and a compressed directory, each with a few states
\* of its paths
RunWorlds ==
    [r : {BackupFile("o1/a", "d1/a")},
     o : {Absent, File(2, "x"), Zip(1, NoFiles)},
     d : {Absent, Zip(1, NoFiles)}]
    \cup
    [r : {BackupDir("o2", "d2", FALSE)},
     o : {Dir([NoFiles EXCEPT !["a"] = Entry(2, "x")]),
          Dir([NoFiles EXCEPT !["a"] = Entry(2, "x"), !["b.zip"] = Entry(2, "x")])},
     d : {Absent}]
    \cup
    [r : {BackupDir("o3", "d3.zip", TRUE)},
     o : {Dir([NoFiles EXCEPT !["a"] = Entry(2, "x")])},
     d : {Absent, Zip(0, [NoFiles EXCEPT !["a"] = Entry(0, "x")])}]

\* the lists of at most MaxArr of them, no resource twice
RunLists ==
    UNION { {s \in [1..n -> RunWorlds] :
                \A i, j \in 1..n : s[i].r = s[j].r => i = j}
            : n \in 0..MaxArr }

InitRun ==
    /\ InitReg
    /\ rsrc = NoResource /\ ofs = Absent /\ dfs = Absent /\ zfs = Absent
    /\ \E s \in RunLists :
          lists = [ref \in Refs |->
                     IF ref = 1
                     THEN [i \in 1..Len(s) |->
                             Element(i, s[i].r, s[i].o, s[i].d, Absent)]
                     ELSE <<>>]
    /\ array = [name |-> "L", ref |-> 1]
    /\ view = NoArray
    /\ gen = NoGen

\* for result, meta in array.backup(slice(start, stop), force=force): the
\* loop is entered (restore likewise)
RunStart(op, start, stop, force) ==
    /\ Idle
    /\ \A i \in 1..Len(lists[array.ref]) :
          lists[array.ref][i].r.last_backup + 1 < MaxBackups
    /\ gen' = [NoGen EXCEPT !.op = op, !.state = "running", !.target = "array",
                            !.force = force, !.orig = lists[array.ref],
                            !.start = start, !.stop = stop,
                            !.todo = getslice(lists[array.ref], start, stop)]
    /\ call' = ArrCall(op, "array", "none")
    /\ UNCHANGED <<regvars, rsrc, ofs, dfs, zfs, array, view, lists>>

\* the loop asks the generator for the next outcome
RunNext ==
    /\ gen.op \in {"backup", "restore"} /\ gen.state = "running"
    /\ \E step \in run_next(gen, lists[array.ref]) :
          /\ gen' = step.gen
          /\ lists' = [lists EXCEPT ![array.ref] = step.data]
          /\ call' = ArrCall("next", "array",
                             IF step.gen.state = "raised" THEN "raised" ELSE "none")
    /\ UNCHANGED <<regvars, rsrc, ofs, dfs, zfs, array, view>>

\* the loop is left before the generator is exhausted
RunStop ==
    /\ gen.op \in {"backup", "restore"} /\ gen.state = "running"
    /\ gen' = [gen EXCEPT !.state = "closed"]
    /\ call' = ArrCall("break", "array", "none")
    /\ UNCHANGED <<regvars, rsrc, ofs, dfs, zfs, array, view, lists>>

RunSlices == {<<0, MaxArr>>} \cup {<<i, i + 1>> : i \in 0..(MaxArr - 1)}

NextRun ==
    \/ \E op \in {"backup", "restore"}, sl \in RunSlices, force \in BOOLEAN :
          RunStart(op, sl[1], sl[2], force)
    \/ RunNext
    \/ RunStop

SpecRun == InitRun /\ [][NextRun]_vars

----------------------------------------------------------------------------
(* export / from_import: the interchange file.  A dict of the file is the   *)
(* set of its keys and their values; None is NoTime for "last" and "" for   *)
(* "at_path", as in the resources.  _last_backup counts seconds since the   *)
(* epoch here.                                                              *)

\* dict.get(key, default)
dict_get(dictt, key, default) ==
    IF key \in dictt.keys THEN dictt[key] ELSE default

\* BackupMeta.to_dict: "type" is the class name without "Backup", lowered
meta_to_dict(r) ==
    [keys |-> {"origin_path", "destiny_path", "type", "last"},
     origin_path |-> r.origin, destiny_path |-> r.destiny, type |-> r.type,
     last |-> r.last_backup, at_path |-> "", compress |-> FALSE]

\* variant: BackupDir.to_dict leaves "compress" out
to_dict_without_compress(r) ==
    IF r.type = "file"
    THEN [meta_to_dict(r) EXCEPT !.keys = @ \cup {"at_path"}, !.at_path = r.at]
    ELSE meta_to_dict(r)

\* BackupFile.to_dict adds "at_path", BackupDir.to_dict adds "compress"
to_dict(r) ==
    IF r.type = "file"
    THEN [meta_to_dict(r) EXCEPT !.keys = @ \cup {"at_path"}, !.at_path = r.at]
    ELSE [meta_to_dict(r) EXCEPT !.keys = @ \cup {"compress"},
                                 !.compress = r.compress]

\* BackupMeta.from_dict with BackupFile.from_dict and BackupDir.from_dict:
\* a "last" that is missing, None or 0 gives None
from_dict(cls, dictt) ==
    LET last == dict_get(dictt, "last", NoTime)
    IN  [type |-> cls,
         origin |-> dictt.origin_path, destiny |-> dictt.destiny_path,
         last_backup |-> IF last /= NoTime /\ last /= 0 THEN last ELSE NoTime,
         at |-> IF cls = "file" THEN dict_get(dictt, "at_path", "") ELSE "",
         compress |-> IF cls = "dir" THEN dict_get(dictt, "compress", FALSE)
                      ELSE FALSE]

NoDoc == [keys |-> {}, list_name |-> "", content |-> <<>>]
Truncated == [text |-> "truncated", doc |-> NoDoc]
Json(doc) == [text |-> "json", doc |-> doc]

\* ResourcesArray.export: the file is opened for writing, then json.dump
\* writes the dicts; the _at of a file of a directory is a PurePath, which
\* json cannot encode, and the file is left cut short
export(nm, s) ==
    IF \E i \in 1..Len(s) : s[i].type = "file" /\ s[i].at /= ""
    THEN [err |-> "TypeError", file |-> Truncated]
    ELSE [err |-> "none",
          file |-> Json([keys |-> {"list_name", "content"}, list_name |-> nm,
                         content |-> [i \in 1..Len(s) |-> to_dict(s[i])]])]

KnownType(dictt) == dictt.type \in {"dir", "file"}

\* ResourcesArray.from_import: json.load, then one resource for each dict
\* whose "type" is "dir" or "file"
from_import(file) ==
    IF file.text /= "json" THEN [err |-> "JSONDecodeError", name |-> "", data |-> <<>>]
    ELSE LET known == SelectSeq(dict_get(file.doc, "content", <<>>), KnownType)
         IN  [err |-> "none",
              name |-> dict_get(file.doc, "list_name", ""),
              data |-> [i \in 1..Len(known) |-> from_dict(known[i].type, known[i])]]

----------------------------------------------------------------------------
(* SpecExport: a list is filled and renamed, exported and imported; files   *)
(* written by hand are imported as well                                     *)

ExportResources ==
    { BackupFile("o1/a", "d1/a"),
      [BackupFile("o1/a", "d1/a") EXCEPT !.last_backup = 0],
      [BackupFile("o1/a", "d1.zip") EXCEPT !.at = "a"],
      BackupDir("o2", "d2", FALSE),
      [BackupDir("o2", "d2.zip", TRUE) EXCEPT !.last_backup = 1] }

\* dicts written by hand: optional keys are left out, a type is unknown
ForeignDicts ==
    { [meta_to_dict(r) EXCEPT !.keys = @ \ {"last"}] :
          r \in {BackupFile("o1/a", "d1/a"), BackupDir("o2", "d2", FALSE)} }
    \cup { [to_dict(BackupDir("o2", "d2.zip", TRUE)) EXCEPT !.last = 1],
           [meta_to_dict(BackupFile("o1/a", "d1/a")) EXCEPT !.type = "link"] }

ForeignDocs ==
    UNION { {[keys |-> ks, list_name |-> "M", content |-> c] :
                ks \in {{"content"}, {"list_name", "content"}},
                c \in [1..n -> ForeignDicts]}
            : n \in 0..2 }

ExCall(op, err) == [op |-> op, target |-> "array", err |-> err]

InitExport ==
    /\ InitReg
    /\ rsrc = NoResource /\ ofs = Absent /\ dfs = Absent /\ zfs = Absent
    /\ lists = [ref \in Refs |-> <<>>]
    /\ \E nm \in {"", "L"} : array = [name |-> nm, ref |-> 1]
    /\ view = NoArray
    /\ gen = NoGen

\* array.add(r)
ExportAdd(r) ==
    /\ snapshot = NoFile
    /\ Len(lists[array.ref]) < MaxArr
    /\ lists' = [lists EXCEPT ![array.ref] = Append(@, r)]
    /\ call' = ExCall("add", "none")
    /\ UNCHANGED <<lname, ldata, data, selected, snapshot, rsrc, ofs, dfs, zfs,
                   array, view, gen>>

\* array.export(path)
Export ==
    /\ snapshot = NoFile
    /\ LET done == export(array.name, lists[array.ref])
       IN  /\ snapshot' = done.file
           /\ call' = ExCall("export", done.err)
    /\ UNCHANGED <<lname, ldata, data, selected, rsrc, ofs, dfs, zfs,
                   arrvars>>

\* a file written by another program
WriteForeign(doc) ==
    /\ snapshot = NoFile /\ lists[array.ref] = <<>>
    /\ snapshot' = Json(doc)
    /\ call' = ExCall("foreign", "none")
    /\ UNCHANGED <<lname, ldata, data, selected, rsrc, ofs, dfs, zfs,
                   arrvars>>

\* view = ResourcesArray.from_import(path)
FromImport ==
    /\ snapshot /= NoFile /\ view = NoArray
    /\ LET got == from_import(snapshot)
       IN  /\ call' = ExCall("from_import", got.err)
           /\ IF got.err /= "none" THEN UNCHANGED <<view, lists>>
              ELSE /\ view' = [name |-> got.name, ref |-> NewRef]
                   /\ lists' = [lists EXCEPT ![NewRef] = got.data]
    /\ UNCHANGED <<lname, ldata, data, selected, snapshot, rsrc, ofs, dfs, zfs,
                   array, gen>>

NextExport ==
    \/ \E r \in ExportResources : ExportAdd(r)
    \/ Export
    \/ \E doc \in ForeignDocs : WriteForeign(doc)
    \/ FromImport

SpecExport == InitExport /\ [][NextExport]_vars

----------------------------------------------------------------------------
(* BackupDir.walk over a tree with subdirectories.  A path is the sequence  *)
(* of its parts; a loose tree says of each relative path whether it is a    *)
(* file, a directory or nothing; an archive is its namelist(), a member     *)
(* name being its parts and whether it ends with "/".  A directory is       *)
(* listed in the order of NameOrder.                                        *)

MaxDepth == 2
NameOrder == <<"a", "s">>
RelPaths == UNION {[1..n -> Range(NameOrder)] : n \in 1..MaxDepth}

Trees ==
    {t \in [RelPaths -> {"none", "file", "dir"}] :
        \A p \in RelPaths :
            Len(p) > 1 /\ t[p] /= "none" => t[SubSeq(p, 1, Len(p) - 1)] = "dir"}

LooseTree(t) == [kind |-> "dir", tree |-> t, namelist |-> <<>>]
Archive(members) ==
    [kind |-> "zip", tree |-> [p \in RelPaths |-> "none"], namelist |-> members]
NoArchive ==
    [kind |-> "absent", tree |-> [p \in RelPaths |-> "none"], namelist |-> <<>>]

\* PurePath.relative_to
relative_to(path, base) == SubSeq(path, Len(base) + 1, Len(path))

\* os.walk(top): (path, dirs, files) of top, then of each directory of dirs
RECURSIVE os_walk(_, _, _)
os_walk(t, top, path) ==
    LET kind(n) == IF Len(relative_to(path, top)) < MaxDepth
                   THEN t[Append(relative_to(path, top), n)] ELSE "none"
        isdir(n) == kind(n) = "dir"
        isfile(n) == kind(n) = "file"
        dirs == SelectSeq(NameOrder, isdir)
        below[i \in 0..Len(dirs)] ==
            IF i = 0 THEN <<>>
            ELSE below[i - 1] \o os_walk(t, top, Append(path, dirs[i]))
    IN  <<[path |-> path, dirs |-> dirs, files |-> SelectSeq(NameOrder, isfile)]>>
        \o below[Len(dirs)]

\* for path, dirs, files in os.walk(src): for file in files: the relative
\* path PurePath(path).joinpath(file).relative_to(src)
walk_files(t, src) ==
    LET found == os_walk(t, src, src)
        ats[i \in 0..Len(found)] ==
            IF i = 0 THEN <<>>
            ELSE ats[i - 1] \o
                 [j \in 1..Len(found[i].files) |->
                     relative_to(Append(found[i].path, found[i].files[j]), src)]
    IN  ats[Len(found)]

\* variant: the directory entries of the archive are yielded as well
walk_with_dir_entries(node, src) ==
    IF is_zipfile(node)
    THEN [i \in 1..Len(node.namelist) |-> node.namelist[i].parts]
    ELSE IF node.kind = "dir" THEN walk_files(node.tree, src) ELSE <<>>

\* BackupDir.walk(source): the _at of the files yielded, in order; src is
\* the path _get_source(source) returned and node what is there
walk_at(node, src) ==
    IF is_zipfile(node)
    THEN LET isfile(m) == ~m.slash
             files == SelectSeq(node.namelist, isfile)
         IN  [i \in 1..Len(files) |-> files[i].parts]
    ELSE IF node.kind = "dir" THEN walk_files(node.tree, src) ELSE <<>>

\* the archive _save_compressed writes: zip_stream.write(path / file,
\* (path / file).relative_to(origin)) for each file of os.walk(origin)
written_names(t, origin) ==
    [i \in 1..Len(walk_files(t, origin)) |->
        [parts |-> walk_files(t, origin)[i], slash |-> FALSE]]

\* the archive another archiver makes of the tree: an entry for each
\* directory as well, the names in the reverse order
archived_names(t) ==
    LET found == os_walk(t, <<>>, <<>>)
        entries[i \in 0..Len(found)] ==
            IF i = 0 THEN <<>>
            ELSE [j \in 1..Len(found[i].files) |->
                     [parts |-> Append(found[i].path, found[i].files[j]),
                      slash |-> FALSE]]
                 \o (IF found[i].path = <<>> THEN <<>>
                     ELSE <<[parts |-> found[i].path, slash |-> TRUE]>>)
                 \o entries[i - 1]
    IN  entries[Len(found)]

----------------------------------------------------------------------------
(* SpecWalk: a tree at the origin, an archive of it at the destiny, both    *)
(* walked                                                                   *)

InitWalk ==
    /\ InitReg
    /\ rsrc = BackupDir("o2", "d2.zip", TRUE)
    /\ \E t \in Trees : ofs = LooseTree(t)
    /\ dfs = NoArchive
    /\ zfs = Absent
    /\ InitArr

WalkCall(op, source, out) == [op |-> op, source |-> source, out |-> out]

\* the archive of the origin is written by _save_compressed
WalkSave ==
    /\ dfs = NoArchive
    /\ dfs' = Archive(written_names(ofs.tree, <<rsrc.origin>>))
    /\ call' = WalkCall("save", "o", <<>>)
    /\ UNCHANGED <<regvars, rsrc, ofs, zfs, arrvars>>

\* the archive of the origin is made by another archiver
WalkArchive ==
    /\ dfs = NoArchive
    /\ dfs' = Archive(archived_names(ofs.tree))
    /\ call' = WalkCall("archive", "o", <<>>)
    /\ UNCHANGED <<regvars, rsrc, ofs, zfs, arrvars>>

\* list(rsrc.walk(source))
Walk(source) ==
    /\ call' = WalkCall("walk", source,
                        IF source = "o" THEN walk_at(ofs, <<rsrc.origin>>)
                        ELSE walk_at(dfs, <<rsrc.destiny>>))
    /\ UNCHANGED <<regvars, fsvars>>

NextWalk ==
    \/ WalkSave
    \/ WalkArchive
    \/ \E source \in {"o", "d"} : Walk(source)

SpecWalk == InitWalk /\ [][NextWalk]_vars

----------------------------------------------------------------------------
(* size *)

\* Path.stat().st_size: whatever is at a path of the model has one byte
st_size(node) == 1

\* BackupFile.size: stat of the origin
file_size(o) ==
    IF ~exists(o) THEN Raises("FileNotFoundError") ELSE Returns(st_size(o))

\* BackupDir.size: the sizes of the files walk() yields are added up; walk()
\* walks the destiny when there is no origin, and the files it yields have
\* their origins below the missing origin
dir_size(r, o, d) ==
    LET W == walk(get_source(o, d))
        sizes == [m \in W |-> file_size(member_origin(o, m))]
    IN  IF \E m \in W : sizes[m].err /= "none"
        THEN Raises("FileNotFoundError")
        ELSE Returns(Cardinality(W))

\* size of the resource r
size(r, o, d) == IF r.type = "file" THEN file_size(o) ELSE dir_size(r, o, d)

----------------------------------------------------------------------------
(* SpecSize: one resource, its size asked *)

\* resource.size
Size ==
    /\ call.op /= "size"
    /\ call' = BkCall("size", FALSE, size(rsrc, ofs, dfs))
    /\ UNCHANGED <<regvars, fsvars>>

NextSize ==
    \/ Size
    \/ Edit

SpecSize == InitBackup /\ [][NextSize]_vars

----------------------------------------------------------------------------
(* SpecRound: a directory with the files "a" and "c", backed up, some of    *)
(* its files deleted, restored                                              *)

\* the directories with files at "a" and "c" taken from E
Plain(E) ==
    {[m \in Members |-> IF m \in {"a", "c"} THEN f[m] ELSE NoEntry] :
        f \in [{"a", "c"} -> E]}

RoundWorlds ==
    [r : {BackupDir("o2", "d2", FALSE), BackupDir("o2", "d2", TRUE)},
     o : {Dir(fs) : fs \in Plain({NoEntry, Entry(0, "x"), Entry(4, "x")})},
     d : {Absent} \cup {Dir(fs) : fs \in Plain({NoEntry, Entry(0, "x")})}]
    \cup
    [r : {BackupDir("o2", "d2.zip", TRUE)},
     o : {Dir(fs) : fs \in Plain({NoEntry, Entry(0, "x"), Entry(4, "x")})},
     d : {Absent} \cup {Zip(0, fs) : fs \in Plain({NoEntry, Entry(0, "x")})}]

InitRound ==
    /\ InitReg
    /\ \E w \in RoundWorlds :
           rsrc = w.r /\ ofs = w.o /\ dfs = w.d /\ zfs = Absent /\ InitArr

\* the user deletes the files S of the origin after a backup that returned
\* True; gone keeps what they were
Delete(S) ==
    /\ call.op = "backup" /\ call.err = "none" /\ call.ret
    /\ S /= {} /\ S \subseteq walk(ofs)
    /\ ofs' = Dir([m \in Members |-> IF m \in S THEN NoEntry ELSE ofs.files[m]])
    /\ call' = [op |-> "delete", force |-> FALSE, err |-> "none", ret |-> FALSE,
                gone |-> [m \in S |-> ofs.files[m]]]
    /\ UNCHANGED <<regvars, rsrc, dfs, zfs, arrvars>>

NextRound ==
    \/ \E force \in BOOLEAN : Backup(force)
    \/ \E force \in BOOLEAN : Restore(force)
    \/ \E S \in SUBSET Members : Delete(S)
    \/ Edit

SpecRound == InitRound /\ [][NextRound]_vars

----------------------------------------------------------------------------
(* SpecMember: the BackupFile walk() yields for the file "a" of a directory *)
(* whose destiny is an archive, backed up and restored on its own           *)

MemberWorlds ==
    [r : {in_dir(BackupDir("o2", "d2.zip", TRUE), Dir(NoFiles), "a")},
     o : {Absent} \cup Files,
     d : {Absent, Zip(0, NoFiles)}
         \cup {Zip(0, [NoFiles EXCEPT !["a"] = e]) : e \in ArchiveEntries \ {NoEntry}}]

InitMember ==
    /\ InitReg
    /\ \E w \in MemberWorlds :
           rsrc = w.r /\ ofs = w.o /\ dfs = w.d /\ zfs = Absent /\ InitArr

NextMember ==
    \/ \E force \in BOOLEAN : Backup(force)
    \/ \E force \in BOOLEAN : Restore(force)
    \/ Edit

SpecMember == InitMember /\ [][NextMember]_vars

----------------------------------------------------------------------------
(* Properties of the registry *)

AddFailed ==
    /\ call'.err = "RepetitionError"
    /\ data' = data
    /\ selected' = selected
    /\ \A i \in 1..Len(data) : lname'[data[i]] = lname[data[i]]

\* C1: add(list) raises RepetitionError whenever a member already has the
\* list's name, and the failing add leaves the registry as it was: the same
\* members in the same order, the same length, the same selected list.
C1_AddDuplicateFails ==
    [][ /\ \A nm \in UserNames :
            (AddNew(nm, <<>>) /\ \E i \in 1..Len(data) : lname[data[i]] = nm)
                => AddFailed
        /\ \A i \in 1..MaxLists : AddMember(i) => AddFailed ]_vars

\* a duplicate add was refused with one list in the registry
C1_Witness ==
    call.op = "add" /\ call.err = "RepetitionError" /\ Len(data) = 1

\* C2: the selected list is absent or a member of the registry; in an empty
\* registry nothing is selected.
C2_SelectedIsMember ==
    /\ selected = None \/ \E i \in 1..Len(data) : data[i] = selected
    /\ data = <<>> => selected = None

\* the selected list was removed and the registry is empty
C2_Witness ==
    call.op \in {"pop", "remove"} /\ call.err = "none" /\ call.hit /\ data = <<>>

\* C3: a successful add to an empty registry selects the added list;
\* remove(L) and pop(i) of the selected list leave nothing selected.
C3_SelectionAfterAddRemove ==
    [][ /\ \A nm \in UserNames :
            (AddNew(nm, <<>>) /\ data = <<>> /\ call'.err = "none")
                => (Len(data') = 1 /\ selected' = data'[1] /\ lname'[selected'] = nm)
        /\ \A value \in Ids :
            (Remove(value) /\ value = selected) => selected' = None
        /\ \A index \in Indexes :
            (Pop(index) /\ InRange(data, index) /\ data[Pos(data, index)] = selected)
                => selected' = None ]_vars

\* the selected list was removed by remove() while another list stays
C3_Witness ==
    call.op = "remove" /\ call.err = "none" /\ call.hit /\ selected = None /\ data /= <<>>

AddIntoEmpty == call'.op = "add" /\ call'.err = "none" /\ data = <<>>
RemovalOfSelected == call'.op \in {"pop", "remove"} /\ call'.hit
ExplicitSelect == call'.op = "select" /\ call'.err = "none"
LoadOfSnapshot == call'.op = "load" /\ snapshot.present

\* C4 as stated: the selection changes only by an add into an empty
\* registry, a removal of the selected list, or select(i); every other
\* operation, load included, leaves it unchanged.
C4_Original ==
    [][ selected' /= selected =>
            (AddIntoEmpty \/ RemovalOfSelected \/ ExplicitSelect) ]_vars

\* C4 amended: the selection changes only by an add into an empty registry,
\* a removal of the selected list, select(i), or a load() that finds a
\* snapshot, which replaces the selection by the snapshot's.
C4_SelectionTransitions ==
    [][ selected' /= selected =>
            (AddIntoEmpty \/ RemovalOfSelected \/ ExplicitSelect \/ LoadOfSnapshot) ]_vars

\* load() installed the selection of the snapshot
C4_Witness ==
    /\ call.op = "load" /\ snapshot.present
    /\ snapshot.sel /= 0 /\ selected = data[snapshot.sel]

SelectFailed == call'.err = "IndexError" /\ selected' = selected /\ data' = data

\* C5 as stated: select(i) with 0 <= i < len selects the list at position
\* i; with i < 0 or i >= len it fails and leaves the selection unchanged.
C5_Original ==
    [][ \A index \in Indexes : Select(index) =>
            IF 0 <= index /\ index < Len(data)
            THEN call'.err = "none" /\ selected' = data[index + 1]
            ELSE SelectFailed ]_vars

\* C5 amended: select(i) with -len <= i < len selects the list at position
\* i, a negative i counting from the end, whatever was selected before;
\* with i >= len or i < -len it fails and leaves the selection unchanged.
C5_SelectByIndex ==
    [][ \A index \in Indexes : Select(index) =>
            IF 0 <= index /\ index < Len(data)
            THEN call'.err = "none" /\ selected' = data[index + 1] /\ data' = data
            ELSE IF index < 0 /\ 0 - index <= Len(data)
            THEN call'.err = "none" /\ selected' = data[Len(data) + index + 1] /\ data' = data
            ELSE SelectFailed ]_vars

\* a negative index selected a list that was not the selected one
C5_Witness ==
    /\ call.op = "select" /\ call.arg < 0 /\ call.err = "none" /\ ~call.hit
    /\ selected = data[Len(data) + call.arg + 1]

\* select failed with a list selected
C5_WitnessFail ==
    call.op = "select" /\ call.err = "IndexError" /\ selected /= None

\* C6: no two lists of the registry have the same name.
C6_NamesUnique ==
    \A i, j \in 1..Len(data) : lname[data[i]] = lname[data[j]] => i = j

\* a rename to the name of another list was refused
C6_Witness ==
    /\ call.op = "list rename" /\ call.err = "refused" /\ Len(data) >= 2
    /\ check_index(Reg, call.arg)
    /\ \E new \in CliNames : new \in Range(names(Reg)) /\ new /= lname[data[call.arg + 1]]

View(R) ==
    [lists |-> [i \in 1..Len(R.data) |->
                   [name |-> R.lname[R.data[i]], content |-> R.ldata[R.data[i]]]],
     sel |-> IF R.selected = None THEN 0 ELSE IndexOf(R.data, R.selected),
     stray |-> R.selected /= None /\ IndexOf(R.data, R.selected) = 0]

\* save() followed by load() from the current state
SaveThenLoad == load(dump(Reg), MaxObjs - Cardinality(Free))

\* C8: save() followed by load() gives the same lists, with the same names
\* and contents in the same order, and the same selection: the loaded
\* selected list is the loaded member at the position that was selected,
\* and nothing is selected if nothing was.  load() without a snapshot file
\* changes nothing.
C8_SaveLoadRoundTrip ==
    /\ [](Cardinality(Free) >= Len(data) =>
            /\ View(SaveThenLoad) = View(Heap)
            /\ selected /= None =>
                  SaveThenLoad.selected = SaveThenLoad.data[IndexOf(data, selected)]
            /\ selected = None => SaveThenLoad.selected = None)
    /\ [](call.op = "load" /\ snapshot.present => View(Heap) = View(load(snapshot, 0)))
    /\ [][Load /\ ~snapshot.present => UNCHANGED <<data, selected, lname, ldata>>]_vars

\* load() has read a snapshot holding a selected list with a resource that
\* was backed up, and room is left to save and load again
C8_Witness ==
    /\ call.op = "load" /\ snapshot.present /\ snapshot.sel /= 0
    /\ selected /= None /\ ldata[selected] /= <<>>
    /\ ldata[selected][1].last_backup /= NoTime
    /\ Cardinality(Free) >= Len(data)

\* load() found no file
C8_WitnessNoFile ==
    call.op = "load" /\ ~snapshot.present /\ data /= <<>>

----------------------------------------------------------------------------
(* Properties of are_different *)

\* the destiny of the file of a directory resource is an archive
ArchiveMember(at) ==
    /\ rsrc.type = "dir"
    /\ is_zipfile(member_destiny(rsrc, get_source(ofs, dfs), dfs, at))

\* C9: are_different(strict) is true, for either strict, whenever the
\* origin or the destiny of a file or directory resource does not exist,
\* and for a file inside an archive whenever its origin is missing or the
\* archive has no such member.
C9_MissingSideIsDifferent ==
    \A strict \in BOOLEAN :
        /\ (~exists(ofs) \/ ~exists(dfs))
              => are_different(rsrc, ofs, dfs, strict) = {Returns(TRUE)}
        /\ \A at \in Members :
              rsrc.type = "dir"
              /\ (\/ ~exists(member_origin(ofs, at))
                  \/ ~exists(member_destiny(rsrc, get_source(ofs, dfs), dfs, at))
                  \/ (ArchiveMember(at) /\ ~dfs.files[at].present))
              => walked_are_different(rsrc, ofs, dfs, at, strict) = Returns(TRUE)

\* are_different was asked of a directory resource without destiny
C9_Witness ==
    /\ call.op = "are_different" /\ rsrc.type = "dir"
    /\ exists(ofs) /\ ~exists(dfs) /\ call.err = "none" /\ call.ret

\* are_different was asked of a file whose archive has no such member
C9_WitnessMember ==
    /\ call.op = "file.are_different" /\ ArchiveMember(call.at)
    /\ ~dfs.files[call.at].present /\ call.err = "none" /\ call.ret

\* C10: for a file resource whose origin and destiny are both files,
\* are_different(strict=False) is true exactly when the modification times
\* of the two, truncated to whole seconds, are unequal.
C10_DifferentIffMtimesUnequal ==
    (rsrc.type = "file" /\ ofs.kind = "file" /\ dfs.kind = "file")
        => file_are_different(ofs, dfs, rsrc.at, FALSE)
             = Returns(trunc(ofs.mtime) /= trunc(dfs.mtime))

----------------------------------------------------------------------------
(* Properties of backup and restore *)

\* the step is a backup(force=False) that follows a backup that returned
\* True, with nothing done to the paths in between
SecondBackup ==
    /\ call.op = "backup" /\ call.err = "none" /\ call.ret
    /\ call'.op = "backup" /\ ~call'.force

\* the step returns False and writes nothing
Skipped ==
    /\ call'.err = "none" /\ ~call'.ret
    /\ dfs' = dfs /\ zfs' = zfs /\ rsrc' = rsrc

\* C11: for every kind of resource, a backup(force=False) that follows a
\* backup that returned True, origin and destiny left as they were, returns
\* False and copies nothing.
C11_BackupIdempotent == [][SecondBackup => Skipped]_vars

\* the destiny holds what the origin holds: the file, every file of the
\* directory, or every file of the directory as a member of the archive
Mirrored(r, o, d, z) ==
    IF r.type = "file"
    THEN IF d.kind = "dir"
         THEN d.files[name(r.origin)] = Entry(o.mtime, o.bytes)
         ELSE d = o
    ELSE IF ~r.compress
    THEN \A m \in walk(o) : d.kind = "dir" /\ d.files[m] = o.files[m]
    ELSE LET archive == IF d.kind = "dir" THEN z ELSE d
         IN  \A m \in walk(o) :
                 /\ is_zipfile(archive) /\ archive.files[m].present
                 /\ archive.files[m].bytes = o.files[m].bytes

\* C12: backup(force=True) of a top-level file or of a directory whose
\* origin exists copies the origin to the destiny, every file of a
\* directory, returns True and leaves the destiny with the content of the
\* origin.
C12_ForcedBackupCopies ==
    [][(call'.op = "backup" /\ call'.force /\ exists(ofs))
          => /\ call'.err = "none" /\ call'.ret
             /\ Mirrored(rsrc, ofs', dfs', zfs')]_vars

\* C13: _last_backup is None on a new resource, and a step changes it only
\* when the step is a backup of the resource that returns True: a backup
\* that returns False, a restore and are_different leave it as it is.
C13_LastBackupOnlyOnSuccess ==
    /\ rsrc.last_backup = NoTime
    /\ [][rsrc'.last_backup /= rsrc.last_backup
            => call'.op = "backup" /\ call'.err = "none" /\ call'.ret]_vars

\* a backup has returned True and the resource has a _last_backup
C13_Witness ==
    /\ call.op = "backup" /\ call.ret /\ rsrc.last_backup /= NoTime

\* a backup has returned False on a resource never backed up
C13_WitnessFailed ==
    /\ call.op = "backup" /\ call.err = "none" /\ ~call.ret
    /\ exists(ofs) /\ rsrc.last_backup = NoTime

\* a restore has returned True on a resource never backed up
C13_WitnessRestore ==
    /\ call.op = "restore" /\ call.ret /\ rsrc.last_backup = NoTime

\* C14: a backup of a file or directory resource whose origin does not
\* exist returns False, writes nothing at the destiny and leaves
\* _last_backup alone; a restore of a resource whose destiny does not exist
\* returns False and writes nothing at the origin.
C14_MissingSideFails ==
    [][/\ (call'.op = "backup" /\ ~exists(ofs))
            => /\ call'.err = "none" /\ ~call'.ret
               /\ dfs' = dfs /\ zfs' = zfs /\ rsrc' = rsrc
       /\ (call'.op = "restore" /\ ~exists(dfs))
            => /\ call'.err = "none" /\ ~call'.ret /\ ofs' = ofs]_vars

\* C15: backup(force) and restore(force) return a boolean whatever is at
\* the origin and the destiny; no exception reaches the caller.
C15_NeverRaises ==
    call.op \in {"backup", "restore"} => call.err = "none"

----------------------------------------------------------------------------
(* Properties of ResourcesArray *)

\* the origin the element was built from exists and is of the kind of the
\* resource
BuiltFromValid(e) ==
    IF e.r.type = "file" THEN e.o.kind \in {"file", "zip"} ELSE e.o.kind = "dir"

\* C16: building a BackupFile or a BackupDir from an origin that does not
\* exist, or that is a directory for a file and a file for a directory,
\* fails, so that a list never holds a resource built from such an origin.
C16_OnlyValidOrigins ==
    \A i \in 1..Len(lists[array.ref]) : BuiltFromValid(lists[array.ref][i])

\* what files_only / dirs_only has just returned
Filtered ==
    /\ call.op = "files_only"
          => /\ view.name = array.name
             /\ lists[view.ref] = SelectSeq(lists[array.ref], IsFile)
    /\ call.op = "dirs_only"
          => /\ view.name = array.name
             /\ lists[view.ref] = SelectSeq(lists[array.ref], IsDir)
    /\ Len(SelectSeq(lists[array.ref], IsFile))
         + Len(SelectSeq(lists[array.ref], IsDir)) = Len(lists[array.ref])

\* a step that adds to, removes from, pops from or clears one of the two
\* arrays leaves the list of the other as it is
Independent ==
    (view /= NoArray /\ view' = view /\ call'.op \in {"add", "remove", "clear", "next"})
        => /\ call'.target = "view" => lists'[array.ref] = lists[array.ref]
           /\ call'.target = "array" => lists'[view.ref] = lists[view.ref]

\* C19: files_only() / dirs_only() return a new array of the same name that
\* holds the BackupFile / BackupDir elements of the array in their order,
\* the two lengths adding up to the length of the array; add, remove, pop
\* and clear on the returned array leave the array unchanged, and those on
\* the array leave the returned one unchanged.
C19_FilteredCopies == []Filtered /\ [][Independent]_vars

\* files_only has returned the files of an array that holds a directory too
C19_Witness ==
    /\ call.op = "files_only"
    /\ Len(lists[view.ref]) > 0 /\ Len(lists[view.ref]) < Len(lists[array.ref])

\* the returned array has lost an element the array still holds
C19_WitnessMutated ==
    /\ view /= NoArray /\ call.op = "remove" /\ call.target = "view"
    /\ call.err = "none"
    /\ Len(lists[view.ref]) < Len(SelectSeq(lists[array.ref], IsFile))

\* what __eq__ compares of the elements of a list
Values(s) == [i \in 1..Len(s) |-> [s[i].r EXCEPT !.last_backup = NoTime]]

\* C20: when the generator of pop(i), 0 <= i < len, or of pop(range) is
\* exhausted, the list is the list it was without the elements at those
\* positions, the others in their order, and the resources yielded are the
\* ones at those positions, also when the list holds resources equal to
\* each other.
C20_PopDeletesPositions ==
    (gen.op = "pop" /\ gen.state \in {"done", "raised"} /\ gen.start < Len(gen.orig))
        => LET stop == IF gen.stop > Len(gen.orig) THEN Len(gen.orig) ELSE gen.stop
           IN  /\ gen.state = "done"
               /\ gen.out = SubSeq(gen.orig, gen.start + 1, stop)
               /\ Values(lists[Obj(gen.target).ref])
                    = Values(SubSeq(gen.orig, 1, gen.start)
                               \o SubSeq(gen.orig, stop + 1, Len(gen.orig)))

----------------------------------------------------------------------------
(* Properties of ResourcesArray.backup and ResourcesArray.restore *)

\* the resources array.backup(index) / array.restore(index) was asked for
Selection == getslice(gen.orig, gen.start, gen.stop)

\* C17: ResourcesArray.backup(index, force) and restore(index, force),
\* consumed until the generator ends, yield one (result, resource) pair for
\* each resource of the selection, in the order of the list; a resource
\* that fails does not keep a later one from being worked on and reported.
C17_OnePairEach ==
    (gen.op \in {"backup", "restore"} /\ gen.state \in {"done", "raised"})
        => /\ Len(gen.out) = Len(Selection)
           /\ \A k \in 1..Len(gen.out) : gen.out[k].id = Selection[k].id

\* the outcomes received so far are those of the first resources of the
\* selection, and the resources after them are as they were when the loop
\* was entered
OnlyFirstWorkedOn ==
    (gen.op = "backup" /\ gen.state \in {"running", "closed"})
        => /\ Len(gen.out) <= Len(Selection)
           /\ \A k \in 1..Len(Selection) :
                 IF k <= Len(gen.out) THEN gen.out[k].id = Selection[k].id
                 ELSE Current(lists[array.ref], Selection[k]) = Selection[k]

\* leaving the loop undoes nothing
NoRollback == (gen.state = "running" /\ gen'.state = "closed") => lists' = lists

\* C18: when the consumer of ResourcesArray.backup stops after k outcomes,
\* the first k resources of the selection have been worked on and what was
\* copied stays copied, and no resource after them has had its destiny
\* written or its _last_backup changed.
C18_StopKeepsPrefix == []OnlyFirstWorkedOn /\ [][NoRollback]_vars

\* the loop was left after one copy, with a resource still to come
C18_Witness ==
    /\ gen.op = "backup" /\ gen.state = "closed"
    /\ Len(gen.out) = 1 /\ gen.out[1].ret /\ Len(Selection) > 1
    /\ Current(lists[array.ref], Selection[1]) /= Selection[1]

----------------------------------------------------------------------------
(* Properties of export and from_import *)

Tuple(r) == <<r.type, r.origin, r.destiny, r.compress>>
TopLevel(s) == \A i \in 1..Len(s) : s[i].at = ""
Exported == snapshot = export(array.name, lists[array.ref]).file

\* C21: export followed by from_import of a list of top-level resources
\* gives a list of the same name with the same (type, origin, destiny,
\* compress) in the same order; a dict without "last", "compress" or
\* "at_path" is read as never backed up, not compressed, not in a directory.
C21_ExportImportRoundTrip ==
    call.op = "from_import" =>
        /\ Exported /\ TopLevel(lists[array.ref]) =>
              /\ call.err = "none"
              /\ view.name = array.name
              /\ Len(lists[view.ref]) = Len(lists[array.ref])
              /\ \A i \in 1..Len(lists[array.ref]) :
                    Tuple(lists[view.ref][i]) = Tuple(lists[array.ref][i])
        /\ call.err = "none" =>
              LET known == SelectSeq(snapshot.doc.content, KnownType)
              IN  /\ Len(lists[view.ref]) = Len(known)
                  /\ \A i \in 1..Len(known) :
                        /\ lists[view.ref][i].type = known[i].type
                        /\ "last" \notin known[i].keys =>
                              lists[view.ref][i].last_backup = NoTime
                        /\ "compress" \notin known[i].keys =>
                              ~lists[view.ref][i].compress
                        /\ "at_path" \notin known[i].keys =>
                              lists[view.ref][i].at = ""

C21_Witness ==
    /\ call.op = "from_import" /\ Exported /\ TopLevel(lists[array.ref])
    /\ array.name = "L"
    /\ \E i, j \in 1..Len(lists[array.ref]) :
          /\ lists[array.ref][i].type = "dir" /\ lists[array.ref][i].compress
          /\ lists[array.ref][j].type = "file"

C21_WitnessForeign ==
    /\ call.op = "from_import" /\ call.err = "none" /\ ~Exported
    /\ \E i \in 1..Len(lists[view.ref]) :
          /\ lists[view.ref][i].type = "dir"
          /\ "compress" \notin SelectSeq(snapshot.doc.content, KnownType)[i].keys

----------------------------------------------------------------------------
(* Properties of BackupDir.walk *)

Once(s) == \A i, j \in 1..Len(s) : s[i] = s[j] => i = j

\* C22: the walk of a loose tree and the walk of an archive of the same
\* content yield the same set of relative paths, each exactly once; the
\* directory entries of the archive are not yielded.
C22_WalkTreeLikeArchive ==
    call.op = "walk" /\ is_zipfile(dfs) =>
        /\ Once(call.out)
        /\ Range(call.out) = {p \in RelPaths : ofs.tree[p] = "file"}
        /\ Range(walk_at(ofs, <<rsrc.origin>>))
               = Range(walk_at(dfs, <<rsrc.destiny>>))

C22_Witness ==
    /\ call.op = "walk" /\ call.source = "d" /\ is_zipfile(dfs)
    /\ \E i \in 1..Len(dfs.namelist) : dfs.namelist[i].slash
    /\ \E i, j \in 1..Len(call.out) : Len(call.out[i]) = 1 /\ Len(call.out[j]) = 2

C22_WitnessLoose ==
    /\ call.op = "walk" /\ call.source = "o" /\ is_zipfile(dfs)
    /\ Len(call.out) > 2

----------------------------------------------------------------------------
(* Properties of the compressed backup *)

\* the archive of a compressed directory: the destiny, or the file
\* origin.name + ".zip" below it when the destiny is a directory
ArchiveOf(d, z) == IF d.kind = "dir" THEN z ELSE d

CompressedBackupDone ==
    /\ call.op = "backup" /\ call.err = "none" /\ call.ret
    /\ rsrc.type = "dir" /\ rsrc.compress

\* C23: after a backup of a compressed directory that returned True, the
\* archive has a member for each file of the origin, with its bytes, under
\* its relative path, and no other member.
C23_ArchiveHoldsOrigin ==
    CompressedBackupDone =>
        /\ is_zipfile(ArchiveOf(dfs, zfs))
        /\ \A m \in Members :
              /\ ArchiveOf(dfs, zfs).files[m].present <=> m \in walk(ofs)
              /\ m \in walk(ofs) =>
                    ArchiveOf(dfs, zfs).files[m].bytes = ofs.files[m].bytes

C23_Witness ==
    /\ CompressedBackupDone
    /\ dfs.kind = "zip"
    /\ walk(ofs) = {"a"}

C23_WitnessBelow ==
    /\ CompressedBackupDone
    /\ dfs.kind = "dir"
    /\ walk(ofs) = {"a"}

----------------------------------------------------------------------------
(* Properties of size *)

\* C24: size of a resource whose origin does not exist raises and returns
\* no number, for a file and for a directory, whatever is at the destiny.
C24_SizeOfMissingOriginRaises ==
    call.op = "size" /\ ~exists(ofs) => call.err /= "none"

----------------------------------------------------------------------------
(* Properties of are_different with equal times *)

\* C25: for a file resource whose origin and destiny are files with the
\* same modification time in whole seconds, are_different returns False for
\* either strict, whatever the two files hold.
C25_EqualMtimesNotDifferent ==
    (/\ call.op = "are_different"
     /\ rsrc.type = "file" /\ ofs.kind = "file" /\ dfs.kind = "file"
     /\ trunc(ofs.mtime) = trunc(dfs.mtime))
        => call.err = "none" /\ ~call.ret

----------------------------------------------------------------------------
(* Properties of the backup and the restore of a directory *)

\* the file at the relative path m of the origin differs from its copy
Changed(m) ==
    /\ m \in walk(ofs)
    /\ walked_are_different(rsrc, ofs, dfs, m, FALSE) = Returns(TRUE)

\* the step is backup(force=False) of an uncompressed directory some of
\* whose files have changed and some have not
PartialBackup ==
    /\ call'.op = "backup" /\ ~call'.force
    /\ rsrc.type = "dir" /\ ~rsrc.compress /\ dfs.kind = "dir"
    /\ \E m \in walk(ofs) : Changed(m)
    /\ \E m \in walk(ofs) : ~Changed(m)

\* C26: backup(force=False) of an uncompressed directory, some files
\* changed and the others not, copies every changed file, returns True and
\* sets _last_backup: a file that is skipped as unchanged does not stop
\* the walk.
C26_SkippedIsNotFailed ==
    [][PartialBackup =>
          /\ call'.err = "none" /\ call'.ret
          /\ rsrc'.last_backup /= rsrc.last_backup
          /\ \A m \in walk(ofs) : dfs'.files[m] = ofs.files[m]]_vars


\* the step is restore() after files of the origin have been deleted
RestoreOfDeleted == call.op = "delete" /\ call'.op = "restore" /\ ~call'.force

\* C27: after a backup that returned True and the deletion of some files of
\* the origin, restore() brings every deleted file back below the origin
\* with the bytes it had: for an uncompressed directory, for a directory
\* compressed to a *.zip destiny and for one compressed into a directory.
C27_RestoreBringsBack ==
    [][RestoreOfDeleted =>
          \A m \in DOMAIN call.gone :
              /\ ofs'.kind = "dir" /\ ofs'.files[m].present
              /\ ofs'.files[m].bytes = call.gone[m].bytes]_vars


\* the step is restore(force=True) of a directory whose destiny is a
\* directory of files
ForcedRestore ==
    /\ call'.op = "restore" /\ call'.force
    /\ rsrc.type = "dir" /\ ~rsrc.compress /\ dfs.kind = "dir"

\* C28: restore(force=True) of a directory whose destiny is a directory
\* copies every file of the destiny to the origin, the files in sync
\* included, and returns True.
C28_ForcedRestoreCopies ==
    [][ForcedRestore =>
          /\ call'.err = "none" /\ call'.ret
          /\ \A m \in walk(dfs) :
                ofs'.kind = "dir" /\ ofs'.files[m] = dfs.files[m]]_vars

----------------------------------------------------------------------------
(* Properties of a file inside an archive *)

\* the resource is a file of a directory and its destiny is an archive
InArchive == rsrc.type = "file" /\ rsrc.at /= "" /\ is_zipfile(dfs)

\* C29: backup(force) and restore(force) of a file of a directory whose
\* destiny is an archive return False for either force and change neither
\* the origin, nor the archive, nor _last_backup.
C29_MemberOfArchiveUntouched ==
    [][(InArchive /\ call'.op \in {"backup", "restore"})
          => /\ call'.err = "none" /\ ~call'.ret
             /\ ofs' = ofs /\ dfs' = dfs /\ zfs' = zfs
             /\ rsrc' = rsrc]_vars

C29_Witness ==
    /\ InArchive /\ exists(ofs) /\ dfs.files["a"].present
    /\ ofs.bytes /= dfs.files["a"].bytes
    /\ call.op = "backup" /\ call.force

C29_WitnessRestore ==
    /\ InArchive /\ dfs.files["a"].present
    /\ call.op = "restore" /\ call.force

----------------------------------------------------------------------------
(* Properties of the membership test *)

\* C30: "value in array" holds exactly when an element of the array equals
\* value: same class, same origin, same destiny and, for a directory, the
\* same compress.
C30_ContainsAgreesWithEq ==
    call.op = "contains" =>
        (call.ret <=> \E i \in 1..Len(lists[array.ref]) :
                         eq(lists[array.ref][i],
                            Element(0, call.value, Absent, Absent, Absent)))

====
